---- MODULE Spec2Model ----
(***************************************************************************)
(* Pankha agent: sysfs hardware backend (fan write protocol, fan and       *)
(* sensor discovery), connection lifecycle with failsafe controller, and   *)
(* the self-update / rollback protocol.                                    *)
(*                                                                         *)
(* Time is a millisecond clock `now`.  The hwmon tree is a map from hwmon  *)
(* directories to the chip that currently lives there.                     *)
(***************************************************************************)
EXTENDS Integers, FiniteSets, Sequences, TLC

\* ------------------------------------------------------------------ bounds
\* Clock granularity of the fan-write specification, in ms.
TickMs == 50
\* Number of clock ticks explored by the fan-write specification.
MaxTicks == 5
\* Cap of the per-fan call/write history counters.
MaxRun == 3
\* Most lifecycle commands with bytes in one list of a profile.
MaxLifecycleCmds == 3
\* Cap of the count of runs of the initialization list.
MaxInits == 3
\* Discovery cycles (telemetry cycles and failsafe polls) of one process.
MaxCycles == 6
\* horizon of the connection specification, seconds
MaxConnSecs == 16
\* horizon of the backoff specification, seconds
MaxBackoffSecs == 40
\* returns of connect_and_communicate counted in a row
MaxStreak == 5
\* horizon of the shutdown specification while the client runs, seconds
MaxStopSecs == 8
\* horizon of the health-check specification, seconds
MaxHealthSecs == 34
\* commands handled in one run of the command specification
MaxCmds == 2

\* ------------------------------------------------------- program constants
\* monitor.rs: "RATE LIMITING: Max 1 write per 100ms per fan"
RateLimitMs == 100

\* ---------------------------------------------------------------- universe
Dirs == {"hwmon0", "hwmon1"}
\* chips with a fan*_input + pwm* pair; the fan id is derived from the chip
FanChips == {"nct", "it87"}
\* chips with a temp*_input; the sensor id is derived from the chip
TempChips == {"nct", "k10temp"}
Chips == FanChips \cup TempChips
NoChip == "none"
NoByte == -1

Min(a, b) == IF a < b THEN a ELSE b
Max(a, b) == IF a > b THEN a ELSE b
\* HashMap::new()
EmptyMap == [x \in {} |-> 0]

VARIABLES
    now,              \* monotonic clock (std::time::Instant), ms
    tree,             \* hwmon dir -> chip name or NoChip (dir absent)
    pwmFile,          \* hwmon dir -> content of pwm1 (byte)
    enableFile,       \* hwmon dir -> content of pwm1_enable: 0 = no such file
    tempRaw,          \* hwmon dir -> content of temp1_input (millidegrees)
    discovered_fans,  \* LinuxHardwareMonitor.discovered_fans: fan id -> FanInfo
    lastFans,         \* Vec<Fan> returned by the last discover_fans
    fanHist,          \* history: per fan, the calls of set_fan_speed observed
    discovered_sensors,        \* LinuxHardwareMonitor.discovered_sensors: id -> SensorInfo
    cached_hwmon_count,        \* LinuxHardwareMonitor.cached_hwmon_count
    last_discovery_from_cache, \* LinuxHardwareMonitor.last_discovery_from_cache
    lastSensors,      \* Vec<Sensor> returned by the last discover_sensors
    sensHist,         \* history: what the last discover_sensors call met and did
    pc,               \* WebSocketClient::run: idle, connecting, online, backoff, done
    running,          \* WebSocketClient.running
    failsafe_active,  \* WebSocketClient.failsafe_active
    retry_count,      \* run: retry_count
    wait_start,       \* run: start (Instant of the backoff wait)
    wait_duration,    \* run: wait_duration, ms
    sleep_until,      \* run: end of the current time::sleep of the wait loop
    connect_start,    \* connect_and_communicate: start of the handshake
    connHist,         \* history: broadcasts and emergency checks observed
    curBin,           \* content of the file at current_exe
    oldBin,           \* content of current_exe.with_extension("old")
    newBin,           \* content of current_exe.with_extension("new")
    marker,           \* content of .update_pending
    proc,             \* binary the agent process is executing, or "none"
    ppc,              \* agent process: down, up (started, not registered), online
    upc,              \* spawned self_update task: position
    updHist,          \* history: verification window of the installed binary
    config,           \* host-ipmi WebSocketClient.config: the tunables
    cmdHist,          \* history: the last inbound command and what it caused
    profile_file,     \* which content the file at --profile has (0: unreadable)
    base_file,        \* which content the file named by `extends` has
    ipmi,             \* IpmiHardwareMonitor: profile, initialized, dry_run, ...
    ipmiHist,         \* history: the last IPMI operation and the ipmitool runs
    receiver,         \* connect_and_communicate: position of the receive loop
    data_sender,      \* spawned data_sender task: position
    write_queue,      \* Arc<Mutex<WsSink>> `write`: holder first, then waiters (FIFO)
    read_deadline,    \* end of the current time::timeout(1 s, read.next())
    sender_wake,      \* end of the current time::sleep of data_sender
    last_message_received, \* receive loop: Instant of the last inbound frame
    taskHist,         \* history: telemetry frames sent, and sent after stop
    calls,            \* set_fan_speed calls in progress: caller -> position, byte
    raceHist,         \* history: rate-limit passes of the calls in progress
    daemon,           \* the PID file, the agent instances and the start/stop commands
    config_json       \* config.json on disk and what the last migrate_config did

hwVars == <<tree, pwmFile, enableFile, tempRaw>>
fanVars == <<discovered_fans, lastFans, fanHist>>
sensVars == <<discovered_sensors, cached_hwmon_count, last_discovery_from_cache,
              lastSensors, sensHist>>
connVars == <<pc, running, failsafe_active, retry_count, wait_start, wait_duration,
              sleep_until, connect_start, connHist>>
updVars == <<curBin, oldBin, newBin, marker, proc, ppc, upc, updHist>>
cmdVars == <<config, cmdHist>>
ipmiVars == <<profile_file, base_file, ipmi, ipmiHist>>
taskVars == <<receiver, data_sender, write_queue, read_deadline, sender_wake,
              last_message_received, taskHist>>
raceVars == <<calls, raceHist, daemon, config_json>>
extVars == <<cmdVars, ipmiVars, taskVars, raceVars>>
coreVars == <<now, hwVars, fanVars, sensVars, connVars, updVars>>
vars == <<now, hwVars, fanVars, sensVars, connVars, updVars, extVars>>

\* ------------------------------------------------------ percent <-> byte
\* `(speed as f32 / 100.0 * 255.0) as u8` after `speed.min(100)`: the cast
\* truncates.  For 0..100 the f32 result equals the integer floor.
PwmOfPercentRound(speed) == (Min(speed, 100) * 255 + 50) \div 100

PwmOfPercent(speed) == (Min(speed, 100) * 255) \div 100

\* `(pwm_value as f32 / 255.0 * 100.0) as u8`
PercentOfPwm(b) == (b * 100) \div 255

\* fan id `{chip}_fan_{n}`: one fan per chip directory, so the chip names it
FanIdOf(chip) == chip

\* ------------------------------------------------------------ fan discovery
\* FanInfo inserted for a fan seen for the first time
NewFanInfo(d, en, t) ==
    [pwm_path |-> d, pwm_enable_path |-> en,
     last_pwm_value |-> NoByte, last_write_time |-> t]

\* what `fan_map.clear()` before the traversal would amount to
RefreshFanInfoReset(old, d, en, t) == NewFanInfo(d, en, t)

\* `Some(existing)`: update in place, paths refreshed, cached PWM state kept
RefreshFanInfo(old, d, en, t) ==
    [old EXCEPT !.pwm_path = d, !.pwm_enable_path = en]

\* one directory of the traversal applied to the fan map
DiscoverDir(fm, tr, en, d, t) ==
    IF tr[d] \in FanChips
    THEN LET id == FanIdOf(tr[d])
             hasEn == en[d] # 0
         IN IF id \in DOMAIN fm
            THEN [fm EXCEPT ![id] = RefreshFanInfo(fm[id], d, hasEn, t)]
            ELSE [x \in DOMAIN fm \cup {id} |->
                    IF x = id THEN NewFanInfo(d, hasEn, t) ELSE fm[x]]
    ELSE fm

\* read_dir order is the directory order
DirSeq == <<"hwmon0", "hwmon1">>

RECURSIVE DiscoverFrom(_, _, _, _, _)
DiscoverFrom(fm, tr, en, i, t) ==
    IF i > Len(DirSeq) THEN fm
    ELSE DiscoverFrom(DiscoverDir(fm, tr, en, DirSeq[i], t), tr, en, i + 1, t)

\* discover_hwmon_fans: the fan map after the traversal
DiscoverHwmonFansMap(fm, tr, en, t) == DiscoverFrom(fm, tr, en, 1, t)

\* discover_hwmon_fans: the returned Vec<Fan> (id, speed readback), one entry
\* per fan*_input with a pwm sibling
DiscoverHwmonFansList(tr, pf) ==
    LET FanOf(d) == [id |-> FanIdOf(tr[d]), speed |-> PercentOfPwm(pf[d])]
        Keep(d) == tr[d] \in FanChips
    IN SelectSeq([i \in 1..Len(DirSeq) |->
                    IF Keep(DirSeq[i]) THEN FanOf(DirSeq[i])
                    ELSE [id |-> NoChip, speed |-> 0]],
                 LAMBDA f : f.id # NoChip)

\* ---------------------------------------------------------------- fan write
\* Outcome of the environment for one call: every sysfs write of the call
\* succeeds, the pwm_enable write fails, or the pwm write fails.
IoOutcomes == {"ok", "enable_fail", "pwm_fail"}

\* The rate-limit test `elapsed < Duration::from_millis(100)`
RateLimitedNever(elapsed) == FALSE

RateLimited(elapsed) == elapsed < RateLimitMs

\* The deduplication test `*last_value == Some(pwm_value)`
DedupHitNever(last, byte) == FALSE

DedupHit(last, byte) == last = byte

\* a failed write that leaves the cached byte as it was
AfterWriteErrKeep(last) == last

\* `*fan_info.last_pwm_value.write().await = None` in the Err arm of the write
AfterWriteErr(last) == NoByte

\* LinuxHardwareMonitor::set_fan_speed on a hardware state
\*   hw = [fans, pwm, en, tree]; result adds res ("ok"/"err") and io:
\*   "notfound", "dedup", "ratelimit", "enable_err", "written", "write_err"
SetFanSpeed(hw, id, speed, t, io) ==
    LET byte == PwmOfPercent(speed)
    IN IF id \notin DOMAIN hw.fans
       THEN [hw |-> hw, res |-> "err", io |-> "notfound", byte |-> byte]
       ELSE
       LET fi == hw.fans[id]
           d == fi.pwm_path
           pathOk == hw.tree[d] # NoChip
           enExists == pathOk /\ hw.en[d] # 0
       IN IF DedupHit(fi.last_pwm_value, byte)
          THEN [hw |-> hw, res |-> "ok", io |-> "dedup", byte |-> byte]
          ELSE IF RateLimited(t - fi.last_write_time)
          THEN [hw |-> hw, res |-> "ok", io |-> "ratelimit", byte |-> byte]
          ELSE
          LET fans1 == [hw.fans EXCEPT ![id].last_write_time = t]
              needEn == fi.pwm_enable_path /\ ~(enExists /\ hw.en[d] = 1)
              enFails == needEn /\ (io = "enable_fail" \/ ~enExists)
              en1 == IF needEn /\ ~enFails THEN [hw.en EXCEPT ![d] = 1] ELSE hw.en
              pwmFails == io = "pwm_fail" \/ ~pathOk
          IN IF enFails
             THEN [hw |-> [hw EXCEPT !.fans = fans1],
                   res |-> "err", io |-> "enable_err", byte |-> byte]
             ELSE IF pwmFails
             THEN [hw |-> [hw EXCEPT !.fans = [fans1 EXCEPT ![id].last_pwm_value =
                                                        AfterWriteErr(fi.last_pwm_value)],
                                     !.en = en1],
                   res |-> "err", io |-> "write_err", byte |-> byte]
             ELSE [hw |-> [hw EXCEPT !.fans = [fans1 EXCEPT ![id].last_pwm_value = byte],
                                     !.en = en1,
                                     !.pwm = [hw.pwm EXCEPT ![d] = byte]],
                   res |-> "ok", io |-> "written", byte |-> byte]

Hw == [fans |-> discovered_fans, pwm |-> pwmFile, en |-> enableFile, tree |-> tree]

\* ------------------------------------------------- observation of the calls
\* Per fan: the current run of calls with one percent (calls, PWM writes
\* attempted), the previous and the current call, the time of the last call
\* that touched sysfs and the byte the pwm file was last given by the agent.
NoCall == [t |-> -1, byte |-> NoByte, io |-> "none", res |-> "none"]
NoHist == [pct |-> -1, calls |-> 0, writes |-> 0, prev |-> NoCall, cur |-> NoCall,
           ioT |-> -1, okByte |-> NoByte, preIoT |-> -1, preOkByte |-> NoByte,
           born |-> -1, redisc |-> FALSE]

DidIo(io) == io \in {"enable_err", "written", "write_err"}
DidPwmWrite(io) == io \in {"written", "write_err"}

HistCall(h, r, speed, t) ==
    LET same == h.pct = speed
        c == [t |-> t, byte |-> r.byte, io |-> r.io, res |-> r.res]
    IN [pct |-> speed,
        calls |-> Min(MaxRun, (IF same THEN h.calls ELSE 0) + 1),
        writes |-> Min(MaxRun, (IF same THEN h.writes ELSE 0)
                               + (IF DidPwmWrite(r.io) THEN 1 ELSE 0)),
        prev |-> h.cur,
        cur |-> c,
        ioT |-> IF DidIo(r.io) THEN t ELSE h.ioT,
        okByte |-> IF r.io = "written" THEN r.byte
                   ELSE IF r.io = "write_err" THEN NoByte ELSE h.okByte,
        preIoT |-> h.ioT,
        preOkByte |-> h.okByte,
        born |-> h.born,
        redisc |-> h.redisc]

\* value of fanHist in a specification that does not observe single fan calls
HistOff == [x \in {"off"} |-> 0]

\* a fan enters the fan map: remember when; a fan that was already known and
\* written is met again by the traversal: remember that
HistDiscover(hist, before, after, tr, t) ==
    IF hist = HistOff THEN hist ELSE
    [id \in DOMAIN after |->
        IF id \notin DOMAIN before
        THEN [NoHist EXCEPT !.born = t]
        ELSE IF /\ before[id].last_pwm_value # NoByte
                /\ \E d \in Dirs : tr[d] \in FanChips /\ FanIdOf(tr[d]) = id
        THEN [hist[id] EXCEPT !.redisc = TRUE]
        ELSE hist[id]]

\* a sequence of set_fan_speed(id, speed) calls, one per id of `ids`, each
\* with its own I/O outcome
RECURSIVE CallAll(_, _, _, _, _, _)
CallAll(hw, hist, ids, speed, t, ioOf) ==
    IF ids = <<>> THEN [hw |-> hw, hist |-> hist]
    ELSE LET id == Head(ids)
             r == SetFanSpeed(hw, id, speed, t, ioOf[id])
             h1 == IF id \in DOMAIN hw.fans /\ hist # HistOff
                   THEN [hist EXCEPT ![id] = HistCall(hist[id], r, speed, t)]
                   ELSE hist
         IN CallAll(r.hw, h1, Tail(ids), speed, t, ioOf)

FanSeq == <<"nct", "it87">>
KnownFanSeq(fm) == SelectSeq(FanSeq, LAMBDA id : id \in DOMAIN fm)

\* LinuxHardwareMonitor::emergency_stop: set_fan_speed(id, 100) for every
\* known fan, failures logged and ignored; always Ok
\* an emergency stop that gives up at the first fan that fails
EStopGoesOnIfOk(res) == res = "ok"

\* `if let Err(e) = self.set_fan_speed(fan_id, 100).await { error!(..) }`:
\* the loop goes on whatever the call returned
EStopGoesOn(res) == TRUE

\* the loop of emergency_stop over the fan map, and what it returns
RECURSIVE StopAll(_, _, _, _, _)
StopAll(hw, hist, ids, t, ioOf) ==
    IF ids = <<>> THEN [hw |-> hw, hist |-> hist, res |-> "ok"]
    ELSE LET id == Head(ids)
             one == CallAll(hw, hist, <<id>>, 100, t, ioOf)
         IN IF EStopGoesOn(SetFanSpeed(hw, id, 100, t, ioOf[id]).res)
            THEN StopAll(one.hw, one.hist, Tail(ids), t, ioOf)
            ELSE [hw |-> one.hw, hist |-> one.hist, res |-> "err"]

EmergencyStopOn(hw, hist, t, ioOf) ==
    StopAll(hw, hist, KnownFanSeq(hw.fans), t, ioOf)

\* --------------------------------------------------------- sensor discovery
\* f64::round of a / b (b > 0): half away from zero
RoundDiv(a, b) ==
    IF a >= 0 THEN (2 * a + b) \div (2 * b) ELSE -((2 * (-a) + b) \div (2 * b))

\* parse_hwmon_sensor: `temp_celsius.round() * 10.0 / 10.0`, in tenths of a degree
FullPathTemp(raw) == RoundDiv(raw, 1000) * 10

\* read_sensors_from_cache: `(temp_celsius * 10.0).round() / 10.0`, in tenths
CachePathTemp(raw) == RoundDiv(raw, 100)

\* sensor id `{chip}_{label}`: one temp1_input per chip directory
SensorIdOf(chip) == chip

\* count_hwmon_dirs
CountHwmonDirs(tr) == Cardinality({d \in Dirs : tr[d] # NoChip})

\* discover_hwmon_sensors: one Sensor per temp1_input met by the traversal
DiscoverHwmonSensors(tr, raw) ==
    LET S(d) == [id |-> SensorIdOf(tr[d]), temperature |-> FullPathTemp(raw[d]),
                 source |-> d]
    IN SelectSeq([i \in 1..Len(DirSeq) |->
                    IF tr[DirSeq[i]] \in TempChips THEN S(DirSeq[i])
                    ELSE [id |-> NoChip, temperature |-> 0, source |-> DirSeq[i]]],
                 LAMBDA x : x.id # NoChip)

\* `cache.clear(); for sensor in &discovered { cache.insert(id, SensorInfo) }`:
\* a later sensor with the same id replaces the earlier one
RECURSIVE CacheInsertAll(_, _)
CacheInsertAll(cache, sensors) ==
    IF sensors = <<>> THEN cache
    ELSE LET x == Head(sensors)
             c1 == [k \in DOMAIN cache \cup {x.id} |->
                      IF k = x.id THEN [temp_input_path |-> x.source, id |-> x.id]
                      ELSE cache[k]]
         IN CacheInsertAll(c1, Tail(sensors))

\* read_sensors_from_cache: every cached record whose file still reads
SensSeq == <<"nct", "k10temp">>
ReadSensorsFromCache(cache, tr, raw) ==
    LET ids == SelectSeq(SensSeq, LAMBDA k :
                  k \in DOMAIN cache /\ tr[cache[k].temp_input_path] \in TempChips)
    IN [i \in 1..Len(ids) |->
          [id |-> ids[i],
           temperature |-> CachePathTemp(raw[cache[ids[i]].temp_input_path]),
           source |-> cache[ids[i]].temp_input_path]]

\* hot-plug test of discover_sensors: the variant that sees additions only
HotplugDetectedGrowth(current, cached) == current > cached

\* `current_hwmon_count != cached_count`
HotplugDetected(current, cached) == current # cached

\* LinuxHardwareMonitor::discover_sensors
DiscoverSensorsOn(cache, cached, tr, raw) ==
    LET current == CountHwmonDirs(tr)
        cache_empty == cache = EmptyMap
    IN IF HotplugDetected(current, cached) \/ cache_empty
       THEN LET discovered == DiscoverHwmonSensors(tr, raw)
            IN [cache |-> CacheInsertAll(EmptyMap, discovered),
                count |-> current, from_cache |-> FALSE,
                sensors |-> discovered, traversed |-> TRUE]
       ELSE [cache |-> cache, count |-> cached, from_cache |-> TRUE,
             sensors |-> ReadSensorsFromCache(cache, tr, raw), traversed |-> FALSE]

\* what a discover_sensors call met (cache populated, tree and directory count
\* against those of the cached discovery) and what it did
NoSensHist == [path |-> "none", populated |-> FALSE, treeChanged |-> FALSE,
               countChanged |-> FALSE, cacheTree |-> [d \in Dirs |-> NoChip]]

SensHistCall(h, r, cache, tr) ==
    [path |-> IF r.traversed THEN "full" ELSE "cache",
     populated |-> cache # EmptyMap,
     treeChanged |-> tr # h.cacheTree,
     countChanged |-> CountHwmonDirs(tr) # CountHwmonDirs(h.cacheTree),
     cacheTree |-> IF r.traversed THEN tr ELSE h.cacheTree]

\* ------------------------------------------- the monitor as one value
\* LinuxHardwareMonitor with the sysfs files it works on
M == [fans |-> discovered_fans, pwm |-> pwmFile, en |-> enableFile, tree |-> tree,
      raw |-> tempRaw, fhist |-> fanHist, lastFans |-> lastFans,
      cache |-> discovered_sensors, count |-> cached_hwmon_count,
      from_cache |-> last_discovery_from_cache, lastSensors |-> lastSensors,
      shist |-> sensHist]

ApplyM(m) ==
    /\ discovered_fans' = m.fans
    /\ pwmFile' = m.pwm
    /\ enableFile' = m.en
    /\ tree' = m.tree
    /\ tempRaw' = m.raw
    /\ fanHist' = m.fhist
    /\ lastFans' = m.lastFans
    /\ discovered_sensors' = m.cache
    /\ cached_hwmon_count' = m.count
    /\ last_discovery_from_cache' = m.from_cache
    /\ lastSensors' = m.lastSensors
    /\ sensHist' = m.shist

HwOf(m) == [fans |-> m.fans, pwm |-> m.pwm, en |-> m.en, tree |-> m.tree]

\* HardwareMonitor::discover_fans
MDiscoverFans(m, t) ==
    LET fm == DiscoverHwmonFansMap(m.fans, m.tree, m.en, t)
    IN [m EXCEPT !.fans = fm,
                 !.lastFans = DiscoverHwmonFansList(m.tree, m.pwm),
                 !.fhist = HistDiscover(m.fhist, m.fans, fm, m.tree, t)]

\* set_fan_speed(id, speed) for every id of `ids`, in order
MCall(m, ids, speed, t, ioOf) ==
    LET r == CallAll(HwOf(m), m.fhist, ids, speed, t, ioOf)
    IN [m EXCEPT !.fans = r.hw.fans, !.pwm = r.hw.pwm, !.en = r.hw.en,
                 !.fhist = r.hist]

\* HardwareMonitor::emergency_stop
MEmergencyStop(m, t, ioOf) ==
    LET r == EmergencyStopOn(HwOf(m), m.fhist, t, ioOf)
    IN [m EXCEPT !.fans = r.hw.fans, !.pwm = r.hw.pwm, !.en = r.hw.en,
                 !.fhist = r.hist]

\* HardwareMonitor::discover_sensors
MDiscoverSensors(m) ==
    LET r == DiscoverSensorsOn(m.cache, m.count, m.tree, m.raw)
    IN [m EXCEPT !.cache = r.cache, !.count = r.count, !.from_cache = r.from_cache,
                 !.lastSensors = r.sensors,
                 !.shist = SensHistCall(m.shist, r, m.cache, m.tree)]

\* HardwareMonitor::invalidate_cache -> invalidate_sensor_cache
MInvalidateCache(m) == [m EXCEPT !.cache = EmptyMap, !.count = 0]

\* ------------------------------------------------------------ the hwmon tree
\* content of pwm1 / pwm1_enable when a chip appears (firmware defaults):
\* the nct chip has a pwm1_enable file in automatic mode (2), it87 has none
BiosPwm == 128
EnableInit(chip) == IF chip = "nct" THEN 2 ELSE 0
\* raw temp1_input values (millidegrees)
CoolRaw == 60000

PwmInit(c) == IF c \in FanChips THEN BiosPwm ELSE 0
TempInit(c) == IF c \in TempChips THEN CoolRaw ELSE 0

InitHw(chips) ==
    /\ tree \in [Dirs -> chips \cup {NoChip}]
    /\ pwmFile = [d \in Dirs |-> PwmInit(tree[d])]
    /\ enableFile = [d \in Dirs |-> EnableInit(tree[d])]
    /\ tempRaw = [d \in Dirs |-> TempInit(tree[d])]

\* LinuxHardwareMonitor::new
InitMonitor ==
    /\ discovered_fans = EmptyMap
    /\ lastFans = <<>>
    /\ fanHist = EmptyMap
    /\ discovered_sensors = EmptyMap
    /\ cached_hwmon_count = 0
    /\ last_discovery_from_cache = FALSE
    /\ lastSensors = <<>>
    /\ sensHist = NoSensHist

NoPoll == [t |-> -1, active |-> FALSE, hot |-> FALSE, invoked |-> FALSE]
NoConnHist == [bcasts |-> 0, bcastIds |-> <<>>, bcastSpeed |-> -1, poll |-> NoPoll,
               lastCheck |-> -1, since |-> -1, disconnected |-> FALSE, phase |-> 0,
               streak |-> 0]

\* WebSocketClient::new
InitClient ==
    /\ pc = "idle"
    /\ running = FALSE
    /\ failsafe_active = FALSE
    /\ retry_count = 0
    /\ wait_start = 0
    /\ wait_duration = 0
    /\ sleep_until = 0
    /\ connect_start = 0
    /\ connHist = NoConnHist

NoFile == "none"
\* the self_update tasks two selfUpdate commands spawn
UpdTasks == {"u1", "u2"}

\* a spawned self_update task: where it stands, when it was spawned, what
\* became of the commandResponse of its command, whether it has swapped the
\* binary and whether the response had been sent by then
NoUpdTask == [pc |-> "idle", spawnAt |-> 0, resp |-> "none", swapped |-> FALSE,
              respFirst |-> FALSE]

NoUpdHist == [verifying |-> FALSE, procNew |-> FALSE, unreg |-> FALSE,
              lastBoot |-> "none", bootUnreg |-> FALSE, firstBoot |-> FALSE,
              tasks |-> [c \in UpdTasks |-> NoUpdTask], handler |-> "idle"]

\* an installed agent that runs and is registered; no update under way
InitUpdate ==
    /\ curBin = "v0"
    /\ oldBin = NoFile
    /\ newBin = NoFile
    /\ marker = NoFile
    /\ proc = "v0"
    /\ ppc = "online"
    /\ upc = "idle"
    /\ updHist = NoUpdHist

\* absent JSON field, absent number, absent string
NoField == "<none>"
NoNum == -1
NoText == "<absent>"
NoMsg == [type |-> NoField, commandId |-> NoField, hasPayload |-> FALSE,
          num |-> NoNum, text |-> NoText]
NoSetterCall == [name |-> "none", arg |-> NoNum, text |-> NoText, res |-> "none",
                 errField |-> "none", errListsSet |-> FALSE]

\* AgentConfig::default of the host-ipmi agent; f64 fields in tenths
InitConfig ==
    [update_interval |-> 30, log_level |-> "INFO", name |-> "host",
     enable_fan_control |-> TRUE, fan_step_percent |-> 5, hysteresis_temp |-> 30,
     emergency_temp |-> 850, failsafe_speed |-> 70]

NoCmdHist == [msg |-> NoMsg, out |-> <<>>, err |-> "none", before |-> InitConfig,
              setter |-> NoSetterCall, spawned |-> FALSE, hwCall |-> "none",
              count |-> 0]

InitCmd ==
    /\ config = InitConfig
    /\ cmdHist = NoCmdHist

\* ------------------------------------------------- BMC profiles (host-ipmi)
\* JSON objects are functions from key strings with the domain the object has;
\* arrays are sequences, scalars strings or numbers.  An Option of the Rust
\* structs is a sequence of length 0 (None) or 1 (Some).  Every key holds the
\* JSON type the profile schema gives it.
None == <<>>
Some(v) == <<v>>
IsSome(o) == Len(o) = 1

Placeholders == {"{{SPEED_HEX}}", "{{SPEED}}"}

\* lifecycle commands; `bytes` is split on whitespace by run_ipmitool_raw
CmdAuto == [name |-> "auto", type |-> "ipmitool_raw",
            bytes |-> Some(<<"0x30", "0x30", "0x01", "0x01">>), critical |-> TRUE]
CmdLog == [name |-> "log", type |-> "ipmitool_raw",
           bytes |-> Some(<<"0x30", "0xce">>), critical |-> FALSE]
CmdManual == [name |-> "manual", type |-> "ipmitool_raw",
              bytes |-> Some(<<"0x30", "0x30", "0x01", "0x00">>), critical |-> TRUE]
CmdNote == [name |-> "note", type |-> "ipmitool_raw", bytes |-> None,
            critical |-> FALSE]
CmdPcie == [name |-> "pcie", type |-> "ipmitool_raw",
            bytes |-> Some(<<"0x30", "0xce", "0x00", "0x16">>), critical |-> TRUE]

\* speed_translation: `type` and the flattened params object
ScaleFull == [type |-> "byte_scale", params |-> [output_min |-> 0, output_max |-> 255]]
ScaleNarrow == [type |-> "byte_scale", params |-> [output_min |-> 16, output_max |-> 116]]
ScaleDefault == [type |-> "byte_scale", params |-> [input_max |-> 100]]
DecimalHex == [type |-> "decimal_hex", params |-> [input_max |-> 100]]
IntegerText == [type |-> "integer", params |-> [input_max |-> 100]]

ZoneOf(id, tr, placeholder) ==
    [id |-> id, name |-> id, speed_translation |-> tr,
     commands |-> [set_speed |-> [type |-> "ipmitool_raw",
                                  bytes |-> Some(<<"0x30", "0x30", "0x02", "0xff",
                                                   placeholder>>)]]]
ZoneAll == ZoneOf("all_fans", ScaleFull, "{{SPEED_HEX}}")
ZoneCpu == ZoneOf("zone0_cpu", ScaleNarrow, "{{SPEED}}")
ZoneDefault == ZoneOf("zone1", ScaleDefault, "{{SPEED_HEX}}")
ZoneDec == ZoneOf("zone2", DecimalHex, "{{SPEED_HEX}}")
ZoneInt == ZoneOf("zone3", IntegerText, "{{SPEED}}")

ParsingCsv == [sdr_format |-> "csv", fan_match_token |-> "RPM",
               temp_match_token |-> "degrees C"]
ParsingFan == [sdr_format |-> "csv", fan_match_token |-> "FAN",
               temp_match_token |-> "degrees C"]

IpmiJson(parsing, zones, init, reset) ==
    [parsing |-> parsing, fan_zones |-> zones,
     lifecycle |-> [initialization |-> init, reset_to_factory |-> reset]]

\* the profile files tried: the file named by --profile ...
ProfileFiles == <<
    \* 1: stand-alone, one critical reset command
    [metadata |-> [schema_version |-> "2.0", vendor |-> "dell"],
     protocols |-> [ipmi |-> IpmiJson(ParsingCsv, <<ZoneAll, ZoneCpu>>,
                                      <<CmdManual>>, <<CmdLog, CmdAuto>>)]],
    \* 2: stand-alone, reset commands none of which is critical
    [metadata |-> [schema_version |-> "2.0", vendor |-> "dell"],
     protocols |-> [ipmi |-> IpmiJson(ParsingCsv, <<ZoneAll>>, <<CmdManual>>,
                                      <<CmdLog>>)]],
    \* 3: stand-alone, no protocols section
    [metadata |-> [schema_version |-> "2.0", vendor |-> "dell"]],
    \* 4: child giving metadata only, with a key the structs do not know
    [extends |-> "_bases/dell_ipmi",
     metadata |-> [schema_version |-> "2.0", vendor |-> "dell-r720",
                   notes |-> "lab"]],
    \* 5: child with its own ipmi section, reset list empty
    [extends |-> "_bases/dell_ipmi",
     metadata |-> [schema_version |-> "2.1", vendor |-> "dell-r720",
                   description |-> "R720"],
     protocols |-> [ipmi |-> IpmiJson(ParsingFan, <<ZoneCpu, ZoneDec>>, <<CmdNote>>,
                                      <<>>)]],
    \* 6: child with its own ipmi section, critical reset
    [extends |-> "_bases/dell_ipmi",
     metadata |-> [schema_version |-> "2.1", vendor |-> "dell-r720"],
     protocols |-> [ipmi |-> IpmiJson(ParsingFan, <<ZoneDefault, ZoneInt, ZoneDec>>,
                                      <<CmdNote, CmdLog>>, <<CmdAuto>>)]],
    \* 7: child with its own ipmi section, reset not critical
    [extends |-> "_bases/dell_ipmi",
     metadata |-> [schema_version |-> "2.1", vendor |-> "dell-r720"],
     protocols |-> [ipmi |-> IpmiJson(ParsingCsv, <<>>, <<>>, <<CmdLog>>)]],
    \* 8: metadata without the required vendor
    [metadata |-> [schema_version |-> "2.0"]],
    \* 9: stand-alone, three initialization commands, the first and the last
    \* critical
    [metadata |-> [schema_version |-> "2.0", vendor |-> "dell"],
     protocols |-> [ipmi |-> IpmiJson(ParsingCsv, <<ZoneAll>>,
                                      <<CmdManual, CmdLog, CmdPcie>>, <<CmdAuto>>)]] >>

\* ... and the files its `extends` can name
BaseFiles == <<
    \* 1: complete base
    [metadata |-> [schema_version |-> "2.0", vendor |-> "dell",
                   description |-> "Dell base", author |-> "pankha"],
     comment |-> "shared",
     protocols |-> [ipmi |-> IpmiJson(ParsingCsv, <<ZoneAll>>, <<CmdManual>>,
                                      <<CmdAuto>>)]],
    \* 2: base whose reset list has no critical command
    [metadata |-> [schema_version |-> "2.0", vendor |-> "dell"],
     protocols |-> [ipmi |-> IpmiJson(ParsingCsv, <<ZoneAll>>, <<CmdManual, CmdLog>>,
                                      <<CmdLog>>)]],
    \* 3: metadata only
    [metadata |-> [schema_version |-> "2.0", vendor |-> "dell",
                   description |-> "Dell base"]],
    \* 4: base that leaves the lifecycle lists to the model profile
    [metadata |-> [vendor |-> "dell"],
     protocols |-> [ipmi |-> [parsing |-> ParsingCsv, fan_zones |-> <<ZoneAll>>,
                              lifecycle |-> [reset_to_factory |-> <<CmdAuto>>]]]] >>

\* index of a file that cannot be read or is not JSON
NoSuchFile == 0

MetadataKeys == {"schema_version", "vendor"}
MetadataOptional == {"author", "description"}

\* keys whose value is a JSON object
ObjectKeys == {"metadata", "protocols", "ipmi", "parsing", "lifecycle"}

\* serde: Deserialize for Metadata / IpmiProtocol / Protocols / BmcProfile
\* succeeds when the required fields are there
ValidMetadata(o) == MetadataKeys \subseteq DOMAIN o
ValidIpmi(o) ==
    /\ {"parsing", "fan_zones", "lifecycle"} \subseteq DOMAIN o
    /\ {"sdr_format", "fan_match_token", "temp_match_token"} \subseteq DOMAIN o.parsing
    /\ {"initialization", "reset_to_factory"} \subseteq DOMAIN o.lifecycle
ValidProtocols(o) == "ipmi" \in DOMAIN o => ValidIpmi(o.ipmi)
ValidProfile(o) ==
    /\ "metadata" \in DOMAIN o
    /\ ValidMetadata(o.metadata)
    /\ "protocols" \in DOMAIN o => ValidProtocols(o.protocols)

\* an optional field: Some when the key is there; unknown keys are dropped
OptField(o, k) == IF k \in DOMAIN o THEN Some(o[k]) ELSE None

MetadataFrom(o) ==
    [schema_version |-> o.schema_version, vendor |-> o.vendor,
     author |-> OptField(o, "author"), description |-> OptField(o, "description")]
IpmiFrom(o) ==
    [parsing |-> [sdr_format |-> o.parsing.sdr_format,
                  fan_match_token |-> o.parsing.fan_match_token,
                  temp_match_token |-> o.parsing.temp_match_token],
     fan_zones |-> o.fan_zones,
     lifecycle |-> [initialization |-> o.lifecycle.initialization,
                    reset_to_factory |-> o.lifecycle.reset_to_factory]]
ProtocolsFrom(o) ==
    [ipmi |-> IF "ipmi" \in DOMAIN o THEN Some(IpmiFrom(o.ipmi)) ELSE None]

\* serde_json::from_str / from_value into BmcProfile, for a valid object
FromValue(o) ==
    [extends |-> OptField(o, "extends"),
     metadata |-> MetadataFrom(o.metadata),
     protocols |-> IF "protocols" \in DOMAIN o
                   THEN Some(ProtocolsFrom(o.protocols)) ELSE None]

\* serde_json::to_value(&profile): a None field leaves no key
MetadataValue(m) ==
    [k \in MetadataKeys \cup {f \in MetadataOptional : IsSome(m[f])} |->
        IF k \in MetadataKeys THEN m[k] ELSE m[k][1]]
ProtocolsValue(p) ==
    [k \in {f \in {"ipmi"} : IsSome(p[f])} |-> p[k][1]]
ToValue(p) ==
    [k \in {"metadata"} \cup {f \in {"extends", "protocols"} : IsSome(p[f])} |->
        IF k = "metadata" THEN MetadataValue(p.metadata)
        ELSE IF k = "protocols" THEN ProtocolsValue(p.protocols[1])
        ELSE p.extends[1]]

\* `initialization`: the override is appended to the base array
AppendInitReplace(base_arr, over_arr) == over_arr

AppendInit(base_arr, over_arr) == base_arr \o over_arr

\* deep_merge of two objects (to_value leaves no null to skip)
RECURSIVE deep_merge(_, _)
deep_merge(base, over) ==
    [k \in DOMAIN base \cup (DOMAIN over \ {"extends"}) |->
        IF k \notin DOMAIN over \/ k = "extends" THEN base[k]
        ELSE IF k \in {"fan_zones", "reset_to_factory"} THEN over[k]
        ELSE IF k = "initialization"
             THEN IF k \in DOMAIN base THEN AppendInit(base[k], over[k]) ELSE over[k]
        ELSE IF k \in DOMAIN base /\ k \in ObjectKeys
             THEN deep_merge(base[k], over[k])
        ELSE over[k]]

LoadErr(e) == [profile |-> None, err |-> e, resolved |-> None]

\* resolve_extends(profile, base_dir) with the base file `bf` at the path
resolve_extends(profile, bf) ==
    IF bf = NoSuchFile THEN LoadErr("Failed to read base profile")
    ELSE LET merged == deep_merge(BaseFiles[bf], ToValue(profile))
         IN IF ~ValidProfile(merged)
            THEN LoadErr("Failed to deserialize merged profile")
            ELSE [profile |-> Some([FromValue(merged) EXCEPT !.extends = None]),
                  err |-> "none",
                  resolved |-> Some([FromValue(merged) EXCEPT !.extends = None])]

\* ipmi.lifecycle.reset_to_factory.iter().any(|cmd| cmd.critical)
HasCriticalResetNonEmpty(reset) == Len(reset) > 0

HasCriticalReset(reset) == \E i \in 1..Len(reset) : reset[i].critical

\* profile.protocols.as_ref().and_then(|p| p.ipmi.as_ref())
IpmiOf(profile) ==
    IF IsSome(profile.protocols) THEN profile.protocols[1].ipmi ELSE None

\* load_profile(path) with the files `pf` at path and `bf` at the base path
load_profile(pf, bf) ==
    IF pf = NoSuchFile THEN LoadErr("Failed to read profile")
    ELSE IF ~ValidProfile(ProfileFiles[pf]) THEN LoadErr("Failed to parse profile JSON")
    ELSE LET parsed == FromValue(ProfileFiles[pf])
             r == IF IsSome(parsed.extends) THEN resolve_extends(parsed, bf)
                  ELSE [profile |-> Some(parsed), err |-> "none",
                        resolved |-> Some(parsed)]
         IN IF r.err # "none" THEN r
            ELSE IF ~IsSome(IpmiOf(r.profile[1]))
                 THEN [r EXCEPT !.profile = None,
                                !.err = "Profile has no IPMI protocol section"]
            ELSE IF ~HasCriticalReset(IpmiOf(r.profile[1])[1].lifecycle.reset_to_factory)
                 THEN [r EXCEPT !.profile = None, !.err = "Safety violation"]
            ELSE r

\* ---- speed interpolation
HexDigits == <<"0", "1", "2", "3", "4", "5", "6", "7", "8", "9",
               "a", "b", "c", "d", "e", "f">>

\* format!("0x{:02x}", value) of a u8
Hex2(v) == "0x" \o HexDigits[(v \div 16) + 1] \o HexDigits[(v % 16) + 1]

DecDigits == <<"0", "1", "2", "3", "4", "5", "6", "7", "8", "9">>

\* u8::to_string
RECURSIVE U8ToString(_)
U8ToString(n) ==
    IF n < 10 THEN DecDigits[n + 1] ELSE U8ToString(n \div 10) \o DecDigits[(n % 10) + 1]

\* (percent, range) at which the f64 product (percent / 100.0) * range falls
\* just below the exact integer percent * range / 100
F64Short == {<<58, 50>>, <<70, 90>>, <<29, 100>>, <<57, 100>>, <<58, 100>>,
             <<82, 150>>, <<70, 170>>, <<35, 180>>, <<70, 180>>, <<29, 200>>,
             <<57, 200>>, <<58, 200>>}

\* ((percent as f64 / 100.0) * range) as u8: truncation, saturating at 255
ScaledRound(percent, range) == Min(255, (percent * range + 50) \div 100)

Scaled(percent, range) ==
    Min(255, (percent * range) \div 100 - IF <<percent, range>> \in F64Short THEN 1 ELSE 0)

\* params.get(key).and_then(|v| v.as_u64()).unwrap_or(default) as u8
ParamU8(params, key, default) ==
    IF key \in DOMAIN params THEN params[key] % 256 ELSE default

\* translate_speed(percent, translation); u8 arithmetic wraps
translate_speed(percent, translation) ==
    IF translation.type = "byte_scale" THEN
        LET output_min == ParamU8(translation.params, "output_min", 0)
            output_max == ParamU8(translation.params, "output_max", 255)
            range == (output_max - output_min) % 256
        IN Hex2((Scaled(percent, range) + output_min) % 256)
    ELSE IF translation.type = "integer" THEN U8ToString(percent)
    ELSE Hex2(percent)

\* interpolate_command(template, speed_value), token by token
interpolate_command(template, speed_value) ==
    [i \in 1..Len(template) |->
        IF template[i] \in Placeholders THEN speed_value ELSE template[i]]

\* ---- IpmiHardwareMonitor
NoIpmi == [built |-> FALSE, profile |-> None, initialized |-> FALSE,
           dry_run |-> FALSE, enable_fan_control |-> TRUE, sdr_cached |-> FALSE]
NoIpmiHist == [op |-> "none", res |-> "none", spawned |-> <<>>, fan_id |-> "none",
               speed |-> 0, loadErr |-> "none", resolved |-> None,
               inits |-> 0, aborted |-> FALSE, touched |-> FALSE,
               cycle |-> 0, capCycle |-> 0, fans |-> <<>>, rejected |-> <<>>]

InitIpmi ==
    /\ profile_file = NoSuchFile
    /\ base_file = NoSuchFile
    /\ ipmi = NoIpmi
    /\ ipmiHist = NoIpmiHist

\* no connection yet: no receive loop, no data_sender task
NoTaskHist == [sent |-> FALSE, late |-> 0, failed |-> "none", failedAt |-> 0,
               activity |-> 0, end |-> "none", endSilence |-> 0, most |-> 0]

InitTask ==
    /\ receiver = "none"
    /\ data_sender = "none"
    /\ write_queue = <<>>
    /\ read_deadline = 0
    /\ sender_wake = 0
    /\ last_message_received = 0
    /\ taskHist = NoTaskHist

\* callers of set_fan_speed that run at the same time
Callers == {"a", "b"}

\* the calls that take the lock of the fan map (discovered_fans: RwLock)
MapTasks == {"emergency_stop", "discover_fans", "set_fan_speed"}

\* passT, close: the rate-limit passes of concurrent set_fan_speed calls;
\* at, readers, writer, waiters, left: the lock of the fan map, where each call
\* on it stands, and the fan ids emergency_stop has yet to visit
NoRaceHist == [passT |-> -1, close |-> FALSE,
               at |-> [t \in MapTasks |-> "idle"],
               readers |-> [t \in MapTasks |-> 0],
               writer |-> "none", waiters |-> <<>>, left |-> <<>>]

\* process ids: the instance that runs and the one a start command spawns
OldPid == "p1"
NewPid == "p2"
Pids == {OldPid, NewPid}
NoPid == "none"

\* an agent that was started as a daemon: its PID in the PID file; no start or
\* stop command under way.  `wiped` records a removal of the PID file of a
\* live instance by another process.
InitDaemon ==
    [pid_file |-> OldPid, alive |-> {OldPid},
     inst |-> [p \in Pids |-> IF p = OldPid THEN "running" ELSE "none"],
     stop |-> "idle", target |-> NoPid, rounds |-> 0, start |-> "idle",
     wiped |-> FALSE]

\* keys of the hardware object of config.json: three that older versions
\* wrote, failsafe_speed, and one that every version writes
ObsoleteKeys == {"filter_duplicate_sensors", "duplicate_sensor_tolerance",
                 "fan_safety_minimum"}
HardwareKeys == ObsoleteKeys \cup {"failsafe_speed", "fan_step_percent"}

\* config.json: whether it exists, how its text is laid out ("garbage" does not
\* parse), which top-level keys besides hardware it has, and the value under
\* hardware: absent, a string, or an object of keys with numbers
ConfigFile(exists, layout, top, kind, fields) ==
    [exists |-> exists, layout |-> layout, top |-> top,
     hardware |-> [kind |-> kind, fields |-> fields]]

NoConfigFile == ConfigFile(FALSE, "none", {}, "absent", <<>>)

\* the file the setup wizard writes: save_config lays it out with
\* to_string_pretty
InstalledConfig ==
    ConfigFile(TRUE, "pretty", {"agent", "backend", "logging"}, "object",
               [k \in {"failsafe_speed", "fan_step_percent"} |->
                   IF k = "failsafe_speed" THEN 70 ELSE 5])

\* no migrate_config call yet
NoMigration(file) ==
    [file |-> file, before |-> file, res |-> "none", migrated |-> FALSE,
     wrote |-> FALSE, runs |-> 0]

InitRaceCore ==
    /\ calls = [c \in Callers |-> [pc |-> "idle", byte |-> NoByte]]
    /\ raceHist = NoRaceHist
    /\ daemon = InitDaemon

InitRace ==
    /\ InitRaceCore
    /\ config_json = NoMigration(InstalledConfig)

InitExt == InitCmd /\ InitIpmi /\ InitTask /\ InitRace

\* the kernel removes a hwmon directory (device unplugged / driver unbound)
RemoveDir(d) ==
    /\ tree[d] # NoChip
    /\ tree' = [tree EXCEPT ![d] = NoChip]
    /\ pwmFile' = [pwmFile EXCEPT ![d] = 0]
    /\ enableFile' = [enableFile EXCEPT ![d] = 0]
    /\ tempRaw' = [tempRaw EXCEPT ![d] = 0]

\* the kernel adds a hwmon directory for a chip
AddDir(d, c) ==
    /\ tree[d] = NoChip
    /\ tree' = [tree EXCEPT ![d] = c]
    /\ pwmFile' = [pwmFile EXCEPT ![d] = PwmInit(c)]
    /\ enableFile' = [enableFile EXCEPT ![d] = EnableInit(c)]
    /\ tempRaw' = [tempRaw EXCEPT ![d] = TempInit(c)]

\* ------------------------------------------- fan-write specification (SpecFan)
\* chips plugged in the fan-write specification
FanSpecChips == {"nct"}

InitFan ==
    now = 0 /\ InitHw(FanSpecChips) /\ InitMonitor /\ InitClient /\ InitUpdate /\ InitExt

FanTick ==
    /\ now < MaxTicks * TickMs
    /\ now' = now + TickMs
    /\ UNCHANGED <<hwVars, fanVars, sensVars, connVars, updVars, extVars>>

\* HardwareMonitor::discover_fans -> discover_hwmon_fans
DiscoverFans ==
    /\ ApplyM(MDiscoverFans(M, now))
    /\ UNCHANGED <<now, connVars, updVars, extVars>>

\* percents commanded in the fan-write specification
Speeds == {50, 60}

\* HardwareMonitor::set_fan_speed(id, speed)
SetFanSpeedCall(id, speed, io) ==
    /\ ApplyM(MCall(M, <<id>>, speed, now, [x \in FanChips |-> io]))
    /\ UNCHANGED <<now, connVars, updVars, extVars>>

FanUnplug(d) == RemoveDir(d) /\ UNCHANGED <<now, fanVars, sensVars, connVars, updVars, extVars>>
FanPlug(d, c) == AddDir(d, c) /\ UNCHANGED <<now, fanVars, sensVars, connVars, updVars, extVars>>

NextFan ==
    \/ FanTick
    \/ DiscoverFans
    \/ \E id \in FanSpecChips, p \in Speeds, io \in IoOutcomes : SetFanSpeedCall(id, p, io)
    \/ \E d \in Dirs : FanUnplug(d)
    \/ \E d \in Dirs, c \in FanSpecChips : FanPlug(d, c)

SpecFan == InitFan /\ [][NextFan]_vars

\* HardwareMonitor::emergency_stop
EmergencyStop(io) ==
    /\ ApplyM(MEmergencyStop(M, now, [x \in FanChips |-> io]))
    /\ UNCHANGED <<now, connVars, updVars, extVars>>

\* the fan-write specification with emergency stops (SpecEStop)
NextEStop ==
    \/ FanTick
    \/ DiscoverFans
    \/ \E id \in FanSpecChips, p \in Speeds, io \in IoOutcomes : SetFanSpeedCall(id, p, io)
    \/ \E io \in IoOutcomes : EmergencyStop(io)

SpecEStop == InitFan /\ [][NextEStop]_vars

\* ---------------------------------------------------------------------
\* Emergency-stop specification with two fans, each with an I/O outcome of
\* its own
\* ---------------------------------------------------------------------
PanicTree == [d \in Dirs |-> IF d = "hwmon0" THEN "nct" ELSE "it87"]

InitPanic ==
    /\ now = 0
    /\ tree = PanicTree
    /\ pwmFile = [d \in Dirs |-> PwmInit(tree[d])]
    /\ enableFile = [d \in Dirs |-> EnableInit(tree[d])]
    /\ tempRaw = [d \in Dirs |-> TempInit(tree[d])]
    /\ InitMonitor /\ InitClient /\ InitUpdate /\ InitExt

\* HardwareMonitor::emergency_stop, the sysfs writes of each fan failing or not
EmergencyStopEach(ioOf) ==
    /\ ApplyM(MEmergencyStop(M, now, ioOf))
    /\ UNCHANGED <<now, connVars, updVars, extVars>>

\* per fan: the sysfs writes succeed or the pwm write fails
PanicOutcomes == [FanChips -> {"ok", "pwm_fail"}]

NextPanic ==
    \/ FanTick
    \/ DiscoverFans
    \/ \E ioOf \in PanicOutcomes : EmergencyStopEach(ioOf)

SpecPanic == InitPanic /\ [][NextPanic]_vars

\* ---------------------------------------------------------------------
\* Concurrent-call specification: two set_fan_speed calls on the fan of the
\* nct chip, each advancing from one await to the next
\* ---------------------------------------------------------------------
RaceFan == "nct"

\* what a step of a call leaves alone besides the fan and its files
RaceElse == UNCHANGED <<now, tree, tempRaw, lastFans, fanHist, sensVars, connVars,
                        updVars, cmdVars, ipmiVars, taskVars, daemon, config_json>>

CallAt(c, at) == calls' = [calls EXCEPT ![c].pc = at]

\* no call is in progress: the read guard on discovered_fans that a call
\* holds to its end keeps discover_fans out
RaceDiscover ==
    /\ \A c \in Callers : calls[c].pc = "idle"
    /\ ApplyM(MDiscoverFans(M, now))
    /\ UNCHANGED <<now, connVars, updVars, extVars>>

\* set_fan_speed(fan_id, speed): pwm_value, discovered_fans.read(), get(fan_id)
CallEnter(c, speed) ==
    /\ calls[c].pc = "idle"
    /\ RaceFan \in DOMAIN discovered_fans
    /\ calls' = [calls EXCEPT ![c] = [pc |-> "dedup", byte |-> PwmOfPercent(speed)]]
    /\ UNCHANGED <<hwVars, fanVars, raceHist>>
    /\ RaceElse

\* the deduplication block: last_pwm_value.read()
CallDedup(c) ==
    /\ calls[c].pc = "dedup"
    /\ IF DedupHit(discovered_fans[RaceFan].last_pwm_value, calls[c].byte)
       THEN CallAt(c, "idle")
       ELSE CallAt(c, "rate")
    /\ UNCHANGED <<hwVars, fanVars, raceHist>>
    /\ RaceElse

\* the rate-limit block: last_write_time.write(), the test, `*last_time = now`,
\* and the guard is dropped at the end of the block
CallRate(c) ==
    /\ calls[c].pc = "rate"
    /\ IF RateLimited(now - discovered_fans[RaceFan].last_write_time)
       THEN /\ CallAt(c, "idle")
            /\ UNCHANGED <<discovered_fans, raceHist>>
       ELSE /\ CallAt(c, "enable")
            /\ discovered_fans' = [discovered_fans EXCEPT ![RaceFan].last_write_time = now]
            /\ raceHist' = [raceHist EXCEPT
                              !.passT = now,
                              !.close = \/ raceHist.close
                                        \/ /\ raceHist.passT >= 0
                                           /\ now - raceHist.passT < RateLimitMs]
    /\ UNCHANGED <<hwVars, lastFans, fanHist>>
    /\ RaceElse

\* the manual-mode block: read_file(enable_path), write_file(enable_path, "1")?
CallEnable(c, enOk) ==
    /\ calls[c].pc = "enable"
    /\ LET d == discovered_fans[RaceFan].pwm_path
           needEn == discovered_fans[RaceFan].pwm_enable_path /\ enableFile[d] # 1
       IN IF needEn /\ (~enOk \/ enableFile[d] = 0)
          THEN CallAt(c, "idle") /\ UNCHANGED enableFile
          ELSE /\ CallAt(c, "write")
               /\ enableFile' = IF needEn THEN [enableFile EXCEPT ![d] = 1] ELSE enableFile
    /\ UNCHANGED <<tree, pwmFile, tempRaw, fanVars, raceHist>>
    /\ RaceElse

\* write_file(pwm_path, pwm_value): tokio::fs::write starts
CallWriteBegin(c) ==
    /\ calls[c].pc = "write"
    /\ CallAt(c, "writing")
    /\ UNCHANGED <<hwVars, fanVars, raceHist>>
    /\ RaceElse

\* write_file(pwm_path, pwm_value): tokio::fs::write returns Ok or Err
CallWriteEnd(c, wrOk) ==
    /\ calls[c].pc = "writing"
    /\ LET d == discovered_fans[RaceFan].pwm_path
       IN IF wrOk
          THEN CallAt(c, "store_ok") /\ pwmFile' = [pwmFile EXCEPT ![d] = calls[c].byte]
          ELSE CallAt(c, "store_err") /\ UNCHANGED pwmFile
    /\ UNCHANGED <<tree, enableFile, tempRaw, fanVars, raceHist>>
    /\ RaceElse

\* `*last_pwm_value.write().await = Some(pwm_value)` or `= None`, the call returns
CallStore(c) ==
    /\ calls[c].pc \in {"store_ok", "store_err"}
    /\ CallAt(c, "idle")
    /\ discovered_fans' = [discovered_fans EXCEPT ![RaceFan].last_pwm_value =
                              IF calls[c].pc = "store_ok" THEN calls[c].byte ELSE NoByte]
    /\ UNCHANGED <<hwVars, lastFans, fanHist, raceHist>>
    /\ RaceElse

NextRace ==
    \/ FanTick
    \/ RaceDiscover
    \/ \E c \in Callers, p \in Speeds : CallEnter(c, p)
    \/ \E c \in Callers : CallDedup(c)
    \/ \E c \in Callers : CallRate(c)
    \/ \E c \in Callers, enOk \in BOOLEAN : CallEnable(c, enOk)
    \/ \E c \in Callers : CallWriteBegin(c)
    \/ \E c \in Callers, wrOk \in BOOLEAN : CallWriteEnd(c, wrOk)
    \/ \E c \in Callers : CallStore(c)

SpecRace == InitFan /\ [][NextRace]_vars

\* ---------------------------------------------------------------------
\* Fan-map lock specification: emergency_stop, discover_fans and a
\* set_fan_speed call of another task on one monitor, each advancing from one
\* acquisition of discovered_fans to the next.  tokio's RwLock queues its
\* requests first in, first out: a read requested after a write waits for it.
\* ---------------------------------------------------------------------
\* what a step on the lock alone leaves unchanged
MapElse == UNCHANGED <<now, hwVars, fanVars, sensVars, connVars, updVars,
                       cmdVars, ipmiVars, taskVars, calls, daemon, config_json>>

\* what a step that runs a monitor operation leaves unchanged
MapRunElse == UNCHANGED <<now, connVars, updVars, cmdVars, ipmiVars, taskVars, calls,
                           daemon, config_json>>

\* a request of `mode` can be granted beside the guards that are held
MapCompatible(h, mode) ==
    IF mode = "write"
    THEN h.writer = "none" /\ \A t \in MapTasks : h.readers[t] = 0
    ELSE h.writer = "none"

\* `.read().await` / `.write().await` is polled: the request joins the queue
MapRequest(h, t, mode, to) ==
    [h EXCEPT !.waiters = Append(@, <<t, mode>>), !.at[t] = to]

\* where a call stands once its request is granted
GrantedAt(at) ==
    CASE at = "outer_wait" -> "outer"
      [] at = "nested_wait" -> "nested"
      [] OTHER -> "held"

\* the request at the head of the queue is granted
MapGrant ==
    /\ raceHist.waiters # <<>>
    /\ LET t == Head(raceHist.waiters)[1]
           mode == Head(raceHist.waiters)[2]
       IN /\ MapCompatible(raceHist, mode)
          /\ raceHist' = [raceHist EXCEPT
                            !.waiters = Tail(@),
                            !.readers[t] = IF mode = "read" THEN @ + 1 ELSE @,
                            !.writer = IF mode = "write" THEN t ELSE @,
                            !.at[t] = GrantedAt(@)]
    /\ MapElse

\* a read guard of `t` is dropped
ReadDropped(h, t, to) == [h EXCEPT !.readers[t] = @ - 1, !.at[t] = to]

\* emergency_stop: `let fan_map = self.discovered_fans.read().await`
EStopBegin ==
    /\ raceHist.at["emergency_stop"] = "idle"
    /\ raceHist' = MapRequest(raceHist, "emergency_stop", "read", "outer_wait")
    /\ MapElse

\* emergency_stop: `for fan_id in fan_map.keys()` starts under the outer guard
EStopKeys ==
    /\ raceHist.at["emergency_stop"] = "outer"
    /\ raceHist' = [raceHist EXCEPT !.left = KnownFanSeq(discovered_fans),
                                    !.at["emergency_stop"] = "loop"]
    /\ MapElse

\* emergency_stop: the next key: set_fan_speed(fan_id, 100) asks for its own
\* read guard; after the last key the outer guard is dropped and Ok returned
EStopNext ==
    /\ raceHist.at["emergency_stop"] = "loop"
    /\ raceHist' = IF raceHist.left = <<>>
                   THEN ReadDropped(raceHist, "emergency_stop", "idle")
                   ELSE MapRequest(raceHist, "emergency_stop", "read", "nested_wait")
    /\ MapElse

\* emergency_stop: set_fan_speed(fan_id, 100) runs under its guard and returns
EStopSet(ioOf) ==
    /\ raceHist.at["emergency_stop"] = "nested"
    /\ ApplyM(MCall(M, <<Head(raceHist.left)>>, 100, now, ioOf))
    /\ raceHist' = [ReadDropped(raceHist, "emergency_stop", "loop")
                      EXCEPT !.left = Tail(@)]
    /\ MapRunElse

\* discover_hwmon_fans: `let mut fan_map = self.discovered_fans.write().await`
MapDiscoverBegin ==
    /\ raceHist.at["discover_fans"] = "idle"
    /\ raceHist' = MapRequest(raceHist, "discover_fans", "write", "wait")
    /\ MapElse

\* discover_hwmon_fans runs under the write guard and returns
MapDiscoverRun ==
    /\ raceHist.at["discover_fans"] = "held"
    /\ ApplyM(MDiscoverFans(M, now))
    /\ raceHist' = [raceHist EXCEPT !.writer = "none", !.at["discover_fans"] = "idle"]
    /\ MapRunElse

\* set_fan_speed of another task: `let fan_map = self.discovered_fans.read().await`
MapSetBegin ==
    /\ raceHist.at["set_fan_speed"] = "idle"
    /\ raceHist' = MapRequest(raceHist, "set_fan_speed", "read", "wait")
    /\ MapElse

\* set_fan_speed of another task runs under its guard and returns
MapSetRun(id, speed, ioOf) ==
    /\ raceHist.at["set_fan_speed"] = "held"
    /\ ApplyM(MCall(M, <<id>>, speed, now, ioOf))
    /\ raceHist' = ReadDropped(raceHist, "set_fan_speed", "idle")
    /\ MapRunElse

\* the percent the other task commands, its sysfs writes succeeding
MapSpeed == 50
MapIo == [x \in FanChips |-> "ok"]

NextMap ==
    \/ FanTick
    \/ MapGrant
    \/ EStopBegin
    \/ EStopKeys
    \/ EStopNext
    \/ \E ioOf \in PanicOutcomes : EStopSet(ioOf)
    \/ MapDiscoverBegin
    \/ MapDiscoverRun
    \/ MapSetBegin
    \/ \E id \in FanSpecChips : MapSetRun(id, MapSpeed, MapIo)

\* two fans, the monitor as constructed, single calls not recorded
InitMap ==
    /\ now = 0
    /\ tree = PanicTree
    /\ pwmFile = [d \in Dirs |-> PwmInit(tree[d])]
    /\ enableFile = [d \in Dirs |-> EnableInit(tree[d])]
    /\ tempRaw = [d \in Dirs |-> TempInit(tree[d])]
    /\ discovered_fans = EmptyMap
    /\ lastFans = <<>>
    /\ fanHist = HistOff
    /\ discovered_sensors = EmptyMap
    /\ cached_hwmon_count = 0
    /\ last_discovery_from_cache = FALSE
    /\ lastSensors = <<>>
    /\ sensHist = NoSensHist
    /\ InitClient /\ InitUpdate /\ InitExt

SpecMap == InitMap /\ [][NextMap]_vars

\* ---------------------------------------------------------------------
\* PID-file specification: the running instance, a stop command, a start
\* command and the instance it spawns, each a process of its own working on
\* the one PID file
\* ---------------------------------------------------------------------
\* `for _ in 0..10` of stop_daemon
StopWaitRounds == 10

pidElse == UNCHANGED <<now, hwVars, fanVars, sensVars, connVars, updVars,
                       cmdVars, ipmiVars, taskVars, calls, raceHist, config_json>>

\* remove_pid_file by process `by`: the file is removed when it exists
RemovePidFile(d, by) ==
    [d EXCEPT !.pid_file = NoPid,
              !.wiped = \/ @
                        \/ (d.pid_file \in d.alive /\ d.pid_file # by)]

\* is_running: get_pid, kill(pid, 0); a PID file of a dead process is removed
IsRunning(d) == d.pid_file # NoPid /\ d.pid_file \in d.alive
AfterIsRunning(d, by) ==
    IF d.pid_file # NoPid /\ d.pid_file \notin d.alive THEN RemovePidFile(d, by) ELSE d

\* main: `if pid == process::id()`
Owns(pid, self) == pid = self

\* kill(pid, SIGTERM) or kill(pid, SIGKILL): the agent installs no handler for
\* SIGTERM, so either ends the process at once
Killed(d, pid) ==
    [d EXCEPT !.alive = @ \ {pid},
              !.inst = [p \in Pids |-> IF p = pid /\ p \in d.alive THEN "dead" ELSE @[p]]]

\* stop_daemon: is_running (exit when not), get_pid, SIGTERM
StopBegin ==
    /\ daemon.stop = "idle"
    /\ daemon' = IF ~IsRunning(daemon)
                 THEN [AfterIsRunning(daemon, "stop") EXCEPT !.stop = "done"]
                 ELSE [Killed(daemon, daemon.pid_file) EXCEPT
                          !.stop = "wait", !.target = daemon.pid_file]
    /\ pidElse

\* stop_daemon: one round of the wait loop
StopWait ==
    /\ daemon.stop = "wait"
    /\ daemon' = IF daemon.rounds = StopWaitRounds
                 THEN [daemon EXCEPT !.stop = "force"]
                 ELSE IF ~IsRunning(daemon)
                 THEN [AfterIsRunning(daemon, "stop") EXCEPT !.stop = "force"]
                 ELSE [daemon EXCEPT !.rounds = @ + 1]
    /\ pidElse

\* stop_daemon: `if is_running() { kill(pid, SIGKILL) }`
StopForce ==
    /\ daemon.stop = "force"
    /\ daemon' = IF IsRunning(daemon)
                 THEN [Killed(daemon, daemon.target) EXCEPT !.stop = "remove"]
                 ELSE [AfterIsRunning(daemon, "stop") EXCEPT !.stop = "remove"]
    /\ pidElse

\* stop_daemon: remove_pid_file()
StopRemove ==
    /\ daemon.stop = "remove"
    /\ daemon' = [RemovePidFile(daemon, "stop") EXCEPT !.stop = "done"]
    /\ pidElse

\* start_daemon_with_log_level: is_running (exit when it is)
StartCheck ==
    /\ daemon.start = "idle"
    /\ daemon' = IF IsRunning(daemon)
                 THEN [daemon EXCEPT !.start = "done"]
                 ELSE [AfterIsRunning(daemon, "start") EXCEPT !.start = "spawn"]
    /\ pidElse

\* start_daemon_with_log_level: the child is spawned with --daemon-child
StartSpawn ==
    /\ daemon.start = "spawn"
    /\ daemon' = [daemon EXCEPT !.start = "save", !.alive = @ \cup {NewPid},
                                !.inst[NewPid] = "boot"]
    /\ pidElse

\* start_daemon_with_log_level: save_pid(child.id())
StartSave ==
    /\ daemon.start = "save"
    /\ daemon' = [daemon EXCEPT !.start = "done", !.pid_file = NewPid]
    /\ pidElse

\* main of the child: `if args.daemon_child { save_pid(process::id()) }`
InstBoot(p) ==
    /\ daemon.inst[p] = "boot"
    /\ daemon' = [daemon EXCEPT !.inst[p] = "running", !.pid_file = p]
    /\ pidElse

\* main: the client stops (Ctrl+C, or run returns) and main goes on to clean up
InstShutdown(p) ==
    /\ daemon.inst[p] = "running"
    /\ daemon' = [daemon EXCEPT !.inst[p] = "cleanup"]
    /\ pidElse

\* main: `if let Ok(Some(pid)) = get_pid() { if pid == process::id() {`
InstOwnerTest(p) ==
    /\ daemon.inst[p] = "cleanup"
    /\ daemon' = IF daemon.pid_file # NoPid /\ Owns(daemon.pid_file, p)
                 THEN [daemon EXCEPT !.inst[p] = "remove"]
                 ELSE [daemon EXCEPT !.inst[p] = "dead", !.alive = @ \ {p}]
    /\ pidElse

\* main: `let _ = remove_pid_file()`, and the process ends
InstRemove(p) ==
    /\ daemon.inst[p] = "remove"
    /\ daemon' = [RemovePidFile(daemon, p) EXCEPT !.inst[p] = "dead", !.alive = @ \ {p}]
    /\ pidElse

NextPid ==
    \/ StopBegin
    \/ StopWait
    \/ StopForce
    \/ StopRemove
    \/ StartCheck
    \/ StartSpawn
    \/ StartSave
    \/ \E p \in Pids : InstBoot(p)
    \/ \E p \in Pids : InstShutdown(p)
    \/ \E p \in Pids : InstOwnerTest(p)
    \/ \E p \in Pids : InstRemove(p)

SpecPid == InitFan /\ [][NextPid]_vars

\* ---------------------------------------------------------------------
\* Configuration-migration specification: migrate_config on the config.json
\* files an older or a current version, or a user, may have left
\* ---------------------------------------------------------------------
\* `serde_json::json!(70)`
MigratedFailsafeSpeed == 70
MaxMigrations == 2

\* values found under failsafe_speed and under the other keys
FailsafeValues == {50, 70}
OtherValue == 5

\* hardware objects of the files tried
HardwareObjects ==
    UNION { { [k \in ks |-> IF k = "failsafe_speed" THEN v ELSE OtherValue] :
                v \in FailsafeValues } : ks \in SUBSET HardwareKeys }

ConfigFiles ==
    {NoConfigFile, ConfigFile(TRUE, "garbage", {}, "absent", <<>>)}
    \cup { ConfigFile(TRUE, l, {"agent", "backend"}, "object", o) :
             l \in {"compact", "pretty"}, o \in HardwareObjects }
    \cup { ConfigFile(TRUE, l, {"agent", "backend"}, k, <<>>) :
             l \in {"compact", "pretty"}, k \in {"absent", "string"} }

\* serde_json::from_str: the text parses unless it is garbage
FromStrOk(file) == file.layout # "garbage"

\* serde_json::to_string_pretty of the tree, written over the file
ToStringPretty(file) == [file EXCEPT !.layout = "pretty"]

\* an additions block that never adds the key
NeedsFailsafeNever(fields) == FALSE

\* `!hardware.contains_key("failsafe_speed")`
NeedsFailsafe(fields) == "failsafe_speed" \notin DOMAIN fields

\* the removals and the addition on the hardware object
MigratedFields(fields) ==
    LET kept == DOMAIN fields \ ObsoleteKeys
    IN IF NeedsFailsafe(fields)
       THEN [k \in kept \cup {"failsafe_speed"} |->
               IF k = "failsafe_speed" THEN MigratedFailsafeSpeed ELSE fields[k]]
       ELSE [k \in kept |-> fields[k]]

\* migrate_config(config_path); wr is what std::fs::write does: "ok", "fail"
\* (the file is not opened) or "partial" (truncated, then the write fails)
migrate_config(file, wr) ==
    LET same(res, mig) == [file |-> file, res |-> res, migrated |-> mig, wrote |-> FALSE]
    IN  IF ~file.exists THEN same("ok", FALSE)
        ELSE IF ~FromStrOk(file) THEN same("err", FALSE)
        ELSE IF file.hardware.kind # "object" THEN same("ok", FALSE)
        ELSE LET fields == file.hardware.fields
                 migrated == (DOMAIN fields \cap ObsoleteKeys # {}) \/ NeedsFailsafe(fields)
                 json == [file EXCEPT !.hardware.fields = MigratedFields(fields)]
             IN  IF ~migrated THEN same("ok", FALSE)
                 ELSE IF wr = "ok"
                 THEN [file |-> ToStringPretty(json), res |-> "ok", migrated |-> TRUE,
                       wrote |-> TRUE]
                 ELSE IF wr = "partial"
                 THEN [file |-> [file EXCEPT !.layout = "garbage"], res |-> "err",
                       migrated |-> TRUE, wrote |-> TRUE]
                 ELSE same("err", TRUE)

WriteOutcomes == {"ok", "fail", "partial"}

\* load_config: migrate_config(&config_path), an error is logged
MigrateConfig(wr) ==
    /\ config_json.runs < MaxMigrations
    /\ LET r == migrate_config(config_json.file, wr)
       IN config_json' = [file |-> r.file, before |-> config_json.file, res |-> r.res,
                          migrated |-> r.migrated, wrote |-> r.wrote,
                          runs |-> config_json.runs + 1]
    /\ UNCHANGED <<now, hwVars, fanVars, sensVars, connVars, updVars,
                   cmdVars, ipmiVars, taskVars, calls, raceHist, daemon>>

NextMig == \E wr \in WriteOutcomes : MigrateConfig(wr)

InitMig ==
    /\ now = 0 /\ InitHw(FanSpecChips) /\ InitMonitor /\ InitClient /\ InitUpdate
    /\ InitCmd /\ InitIpmi /\ InitTask /\ InitRaceCore
    /\ \E f \in ConfigFiles : config_json = NoMigration(f)

SpecMig == InitMig /\ [][NextMig]_vars

\* ------------------------------------ sensor-discovery specification (SpecSens)
SensSpecChips == {"k10temp", "nct"}
\* raw temp1_input values a sensor may show (millidegrees)
HalfRaw == 84500
HotRaw == 86000
RawTemps == {CoolRaw, HalfRaw, HotRaw}

InitSens ==
    now = 0 /\ InitHw(SensSpecChips) /\ InitMonitor /\ InitClient /\ InitUpdate /\ InitExt

\* HardwareMonitor::discover_sensors
DiscoverSensors ==
    /\ ApplyM(MDiscoverSensors(M))
    /\ UNCHANGED <<now, connVars, updVars, extVars>>

\* HardwareMonitor::invalidate_cache
InvalidateCache ==
    /\ ApplyM(MInvalidateCache(M))
    /\ UNCHANGED <<now, connVars, updVars, extVars>>

\* the chip reports another temperature
SetTemp(d, v) ==
    /\ tree[d] \in TempChips
    /\ tempRaw[d] # v
    /\ tempRaw' = [tempRaw EXCEPT ![d] = v]
    /\ UNCHANGED <<now, tree, pwmFile, enableFile, fanVars, sensVars, connVars, updVars, extVars>>

SensUnplug(d) == RemoveDir(d) /\ UNCHANGED <<now, fanVars, sensVars, connVars, updVars, extVars>>
SensPlug(d, c) == AddDir(d, c) /\ UNCHANGED <<now, fanVars, sensVars, connVars, updVars, extVars>>

NextSens ==
    \/ DiscoverSensors
    \/ InvalidateCache
    \/ \E d \in Dirs, v \in RawTemps : SetTemp(d, v)
    \/ \E d \in Dirs : SensUnplug(d)
    \/ \E d \in Dirs, c \in SensSpecChips : SensPlug(d, c)

SpecSens == InitSens /\ [][NextSens]_vars

\* ------------------------------------- connection specification (SpecConn)
\* AgentConfig::default (seconds, degrees Celsius, percent)
update_interval == 3
reconnect_interval == 5
connection_timeout == 10
emergency_temp == 85
failsafe_speed == 70
\* Duration::from_secs_f64, in ms
SecMs == 1000

\* the client with its monitor, as one value
C == [m |-> M, failsafe |-> failsafe_active, hist |-> connHist]

ApplyC(c) ==
    /\ ApplyM(c.m)
    /\ failsafe_active' = c.failsafe
    /\ connHist' = c.hist

IdsOf(fans) == [i \in 1..Len(fans) |-> fans[i].id]

\* set_all_fans_to_speed: discover_fans, then set_fan_speed for each fan
\* returned, failures counted and logged
SetAllFansToSpeed(m, speed, t, ioOf) ==
    LET m1 == MDiscoverFans(m, t)
    IN MCall(m1, IdsOf(m1.lastFans), speed, t, ioOf)

HistBroadcast(h, ids, speed, t) ==
    [h EXCEPT !.bcasts = Min(MaxRun, @ + 1), !.bcastIds = ids,
              !.bcastSpeed = speed, !.since = t]

\* enter_failsafe_mode without its early return
AlreadyInFailsafeNever(failsafe) == FALSE

\* enter_failsafe_mode: `if *failsafe { return Ok(()) }`
AlreadyInFailsafe(failsafe) == failsafe

\* enter_failsafe_mode
EnterFailsafeMode(c, t, ioOf) ==
    IF AlreadyInFailsafe(c.failsafe) THEN c
    ELSE LET m1 == SetAllFansToSpeed(c.m, failsafe_speed, t, ioOf)
         IN [m |-> m1, failsafe |-> TRUE,
             hist |-> HistBroadcast(c.hist, IdsOf(m1.lastFans), failsafe_speed, t)]

\* exit_failsafe_mode without the assignment
ExitFailsafeModeKeep(c) == c

\* exit_failsafe_mode
ExitFailsafeMode(c) == [c EXCEPT !.failsafe = FALSE]

\* `.max_by(partial_cmp).unwrap_or(0.0)`, in tenths of a degree
MaxTemp(sensors) ==
    IF sensors = <<>> THEN 0
    ELSE LET ts == {sensors[i].temperature : i \in 1..Len(sensors)}
         IN CHOOSE x \in ts : \A y \in ts : x >= y

\* the emergency test with a strict comparison
EmergencyReachedStrict(max_temp, limit) == max_temp > limit

\* `if max_temp >= emergency_temp`
EmergencyReached(max_temp, limit) == max_temp >= limit

HistPoll(h, t, active, sensors, invoked) ==
    [h EXCEPT !.poll = [t |-> t, active |-> active,
                        hot |-> \E i \in 1..Len(sensors) :
                                   sensors[i].temperature >= emergency_temp * 10,
                        invoked |-> invoked],
              !.lastCheck = IF active THEN t ELSE @]

\* check_emergency_temp
CheckEmergencyTemp(c, t, ioOf) ==
    LET m1 == MDiscoverSensors(c.m)
        max_temp == MaxTemp(m1.lastSensors)
        stop == EmergencyReached(max_temp, emergency_temp * 10)
    IN [c EXCEPT !.m = IF stop THEN MEmergencyStop(m1, t, ioOf) ELSE m1,
                 !.hist = HistPoll(c.hist, t, TRUE, m1.lastSensors, stop)]

\* run_failsafe_check
RunFailsafeCheck(c, t, ioOf) ==
    IF c.failsafe THEN CheckEmergencyTemp(c, t, ioOf)
    ELSE [c EXCEPT !.hist = HistPoll(c.hist, t, FALSE, <<>>, FALSE)]

\* a wait that doubles with every retry
WaitTimeMsDoubling(retry) ==
    CASE retry = 0 -> reconnect_interval * 1000
      [] retry = 1 -> reconnect_interval * 2000
      [] retry = 2 -> reconnect_interval * 4000
      [] OTHER -> reconnect_interval * 8000

\* run: `match retry_count { 0 => B, 1 => B * 1.4, 2 => B * 2.0, _ => B * 3.0 }`, ms
WaitTimeMs(retry) ==
    CASE retry = 0 -> reconnect_interval * 1000
      [] retry = 1 -> reconnect_interval * 1400
      [] retry = 2 -> reconnect_interval * 2000
      [] OTHER -> reconnect_interval * 3000

\* history: the connection went (lost) or could not be made (failed)
HistDown(h, lost, wasOk) ==
    [h EXCEPT !.disconnected = TRUE,
              !.streak = IF wasOk THEN 1 ELSE Min(MaxStreak, @ + 1),
              !.phase = IF lost /\ @ = 1 THEN 2
                        ELSE IF ~lost /\ @ = 2 THEN 3 ELSE @]

\* history: the handshake succeeded
HistUp(h) ==
    [h EXCEPT !.disconnected = FALSE, !.bcasts = 0,
              !.phase = IF @ = 3 THEN 4 ELSE IF @ = 4 THEN 4 ELSE 1]

\* run, from the return of connect_and_communicate to the start of the wait
\* a retry counter that no return of connect_and_communicate resets
RetryAfterKeep(wasOk, retry) == retry

\* `Ok(_) => { retry_count = 0; }`, `Err(e) => { ... }`
RetryAfter(wasOk, retry) == IF wasOk THEN 0 ELSE retry

AfterConnectCore(c, t, wasOk, lost, ioOf) ==
    LET rc == RetryAfter(wasOk, retry_count)
        c1 == EnterFailsafeMode([c EXCEPT !.hist = HistDown(@, lost, wasOk)], t, ioOf)
    IN /\ ApplyC(c1)
       /\ IF running
          THEN /\ wait_duration' = WaitTimeMs(rc)
               /\ retry_count' = Min(rc + 1, 3)
               /\ wait_start' = t
               /\ sleep_until' = t
               /\ pc' = "backoff"
          ELSE /\ retry_count' = rc
               /\ pc' = "done"
               /\ UNCHANGED <<wait_duration, wait_start, sleep_until>>
       /\ UNCHANGED <<now, running, connect_start, updVars, cmdVars, ipmiVars, raceVars>>

\* the same when no task of the connection is left to end
AfterConnect(c, t, wasOk, lost, ioOf) ==
    AfterConnectCore(c, t, wasOk, lost, ioOf) /\ UNCHANGED taskVars

\* /sys/class/hwmon of the connection specification: one fan controller with a
\* temperature input and one CPU temperature chip
ConnTree == [d \in Dirs |-> IF d = "hwmon0" THEN "nct" ELSE "k10temp"]

InitConnCore ==
    /\ now = 0
    /\ tree = ConnTree
    /\ pwmFile = [d \in Dirs |-> PwmInit(tree[d])]
    /\ enableFile = [d \in Dirs |-> EnableInit(tree[d])]
    /\ tempRaw = [d \in Dirs |-> TempInit(tree[d])]
    /\ discovered_fans = EmptyMap
    /\ lastFans = <<>>
    /\ fanHist = HistOff
    /\ discovered_sensors = EmptyMap
    /\ cached_hwmon_count = 0
    /\ last_discovery_from_cache = FALSE
    /\ lastSensors = <<>>
    /\ sensHist = NoSensHist
    /\ InitClient
    /\ InitUpdate

InitConn == InitConnCore /\ InitExt

\* WebSocketClient::run up to the first connect_and_communicate
ConnStart ==
    /\ pc = "idle"
    /\ running' = TRUE
    /\ retry_count' = 0
    /\ pc' = "connecting"
    /\ connect_start' = now
    /\ UNCHANGED <<now, hwVars, fanVars, sensVars, failsafe_active, wait_start,
                   wait_duration, sleep_until, connHist, updVars, extVars>>

\* one second passes: inside the handshake, inside the sleep of the wait loop,
\* or while the connection is up
ConnTick ==
    /\ \/ pc = "connecting" /\ now - connect_start < connection_timeout * SecMs
       \/ pc = "backoff" /\ now < sleep_until
       \/ pc = "online"
    /\ now + SecMs <= MaxConnSecs * SecMs
    /\ now' = now + SecMs
    /\ UNCHANGED <<hwVars, fanVars, sensVars, connVars, updVars, extVars>>

\* connect_and_communicate: connect_async fails, or the timeout elapses
ConnectFail(io) ==
    /\ pc = "connecting"
    /\ AfterConnect(C, now, FALSE, FALSE, [x \in FanChips |-> io])

\* connect_and_communicate: handshake done; exit_failsafe_mode,
\* invalidate_cache, send_registration; the receive loop starts, or the
\* registration frame cannot be sent and the Err goes back to run
ConnectOk(sendOk, io) ==
    /\ pc = "connecting"
    /\ now - connect_start < connection_timeout * SecMs
    /\ LET c1 == ExitFailsafeMode(C)
           m1 == MDiscoverFans(MDiscoverSensors(MInvalidateCache(c1.m)), now)
           c2 == [c1 EXCEPT !.m = m1, !.hist = HistUp(@)]
       IN IF sendOk
          THEN /\ ApplyC(c2)
               /\ pc' = "online"
               /\ UNCHANGED <<now, running, retry_count, wait_start, wait_duration,
                              sleep_until, connect_start, updVars, extVars>>
          ELSE AfterConnect(c2, now, FALSE, TRUE, [x \in FanChips |-> io])

\* handle_command "setFanSpeed" from the hub
HubSetFanSpeed(id, speed, io) ==
    /\ pc = "online"
    /\ running
    /\ ApplyM(MCall(M, <<id>>, speed, now, [x \in FanChips |-> io]))
    /\ UNCHANGED <<now, connVars, updVars, extVars>>

\* connect_and_communicate: the receive loop breaks (close frame, stream end or
\* error, health timeout, shutdown requested) and Ok goes back to run
OnlineEnd(io) ==
    /\ pc = "online"
    /\ AfterConnect(C, now, TRUE, TRUE, [x \in FanChips |-> io])

\* run, wait loop: run_failsafe_check, then sleep min(check_interval, remaining)
BackoffPoll(io) ==
    /\ pc = "backoff"
    /\ now >= sleep_until
    /\ now - wait_start < wait_duration
    /\ running
    /\ ApplyC(RunFailsafeCheck(C, now, [x \in FanChips |-> io]))
    /\ sleep_until' = now + Min(update_interval * SecMs,
                                wait_duration - (now - wait_start))
    /\ UNCHANGED <<now, pc, running, retry_count, wait_start, wait_duration,
                   connect_start, updVars, extVars>>

\* run, wait loop: `if !running { break }`, then the outer loop breaks
BackoffBreak ==
    /\ pc = "backoff"
    /\ now >= sleep_until
    /\ now - wait_start < wait_duration
    /\ ~running
    /\ pc' = "done"
    /\ UNCHANGED <<now, hwVars, fanVars, sensVars, running, failsafe_active,
                   retry_count, wait_start, wait_duration, sleep_until,
                   connect_start, connHist, updVars, extVars>>

\* run, wait loop over: back to the top of the outer loop
BackoffEnd ==
    /\ pc = "backoff"
    /\ now >= sleep_until
    /\ now - wait_start >= wait_duration
    /\ pc' = IF running THEN "connecting" ELSE "done"
    /\ connect_start' = now
    /\ UNCHANGED <<now, hwVars, fanVars, sensVars, running, failsafe_active,
                   retry_count, wait_start, wait_duration, sleep_until, connHist, updVars, extVars>>

\* WebSocketClient::stop
ConnStop ==
    /\ pc \in {"connecting", "online", "backoff"}
    /\ running
    /\ running' = FALSE
    /\ UNCHANGED <<now, hwVars, fanVars, sensVars, pc, failsafe_active,
                   retry_count, wait_start, wait_duration, sleep_until,
                   connect_start, connHist, updVars, extVars>>

\* temp1_input values met in the connection specification
EdgeRaw == 85000
ConnTemps == {CoolRaw, EdgeRaw}
\* sysfs outcomes met in the connection specification
ConnIo == {"ok", "pwm_fail"}

NextConn ==
    \/ ConnStart
    \/ ConnTick
    \/ \E io \in ConnIo : ConnectFail(io)
    \/ \E sendOk \in BOOLEAN, io \in ConnIo : ConnectOk(sendOk, io)
    \/ \E io \in ConnIo : HubSetFanSpeed("nct", 50, io)
    \/ \E io \in ConnIo : OnlineEnd(io)
    \/ \E io \in ConnIo : BackoffPoll(io)
    \/ BackoffBreak
    \/ BackoffEnd
    \/ ConnStop
    \/ \E v \in ConnTemps : SetTemp("hwmon1", v)

SpecConn == InitConn /\ [][NextConn]_vars

\* ---------------------------------------- backoff specification (SpecBackoff)
\* The connection state machine over a longer horizon: the sysfs writes succeed,
\* the temperatures stay, a connect attempt is answered at once and a sleep of
\* the wait loop passes in one step.
ConnSleep ==
    /\ pc = "backoff"
    /\ now < sleep_until
    /\ sleep_until <= MaxBackoffSecs * SecMs
    /\ now' = sleep_until
    /\ UNCHANGED <<hwVars, fanVars, sensVars, connVars, updVars, extVars>>

NextBackoff ==
    \/ ConnStart
    \/ ConnSleep
    \/ ConnectFail("ok")
    \/ \E sendOk \in BOOLEAN : ConnectOk(sendOk, "ok")
    \/ OnlineEnd("ok")
    \/ BackoffPoll("ok")
    \/ BackoffBreak
    \/ BackoffEnd
    \/ ConnStop

SpecBackoff == InitConn /\ [][NextBackoff]_vars

\* ------------------------------------------ shutdown specification (SpecStop)
\* The connection state machine with the two tasks of a live connection: the
\* receive loop of connect_and_communicate and the spawned data_sender, which
\* share the sink behind the `write` mutex. A sleep or a timeout passes in one
\* step; the sysfs writes succeed.
TaskIo == [x \in FanChips |-> "ok"]

\* a running client arms no timer of a task that would expire after the
\* horizon of `secs` seconds
WithinHorizon(delay, secs) == now + delay <= secs * SecMs

\* the tasks of a connection are gone: data_sender.abort() drops the task at
\* the await it is parked on, with the guard it may hold; data_sender.await
\* then returns at once
TasksEnded ==
    /\ receiver' = "none"
    /\ data_sender' = "none"
    /\ write_queue' = <<>>
    /\ read_deadline' = 0
    /\ sender_wake' = 0
    /\ last_message_received' = 0

\* a step of one task: run and the monitor stay
TaskStepOnly == UNCHANGED <<now, hwVars, fanVars, sensVars, connVars, updVars,
                            cmdVars, ipmiVars, raceVars>>

\* frames written to the sink under one guard: send_registration and send_data
\* call write.send once, handle_message sends one pong for a ping and
\* handle_command one commandResponse
FramesOf(kind) ==
    CASE kind = "registration" -> 1
      [] kind = "telemetry" -> 1
      [] kind = "ping" -> 1
      [] kind = "setFanSpeed" -> 1
      [] OTHER -> 0

\* a lock() that is granted to whoever asks
LockGrantedAlways(queue, task) == TRUE

\* tokio::sync::Mutex: lock().await returns for the task that waits longest
LockGranted(queue, task) == queue # <<>> /\ Head(queue) = task

\* connect_and_communicate after send_registration (one frame under its own
\* guard): tokio::spawn(data_sender), then the receive loop is entered
Spawn ==
    /\ pc = "online"
    /\ receiver = "none"
    /\ receiver' = "top"
    /\ data_sender' = "check"
    /\ last_message_received' = now
    /\ taskHist' = [taskHist EXCEPT !.failed = "none", !.failedAt = 0,
                                    !.activity = now, !.end = "none", !.endSilence = 0,
                                    !.most = Max(@, FramesOf("registration"))]
    /\ UNCHANGED <<write_queue, read_deadline, sender_wake>>
    /\ TaskStepOnly

\* data_sender: `while *running.read().await`, then `write_clone.lock().await`
SenderCheckH(secs) ==
    /\ data_sender = "check"
    /\ IF running
       THEN /\ WithinHorizon(update_interval * SecMs, secs)
            /\ data_sender' = "lock"
            /\ write_queue' = Append(write_queue, "data_sender")
       ELSE /\ data_sender' = "none"
            /\ UNCHANGED write_queue
    /\ UNCHANGED <<receiver, read_deadline, sender_wake, last_message_received, taskHist>>
    /\ TaskStepOnly

SenderCheck == SenderCheckH(MaxStopSecs)

\* data_sender holds the sink: send_data (discover_sensors, discover_fans, the
\* frame is written), the guard is dropped; then the sleep starts, or the
\* loop breaks on a send error
SenderSendFrom(at, sendOk) ==
    /\ data_sender = at
    /\ LockGranted(write_queue, "data_sender")
    /\ write_queue' = Tail(write_queue)
    /\ ApplyM(MDiscoverFans(MDiscoverSensors(M), now))
    /\ IF sendOk
       THEN /\ data_sender' = "sleep"
            /\ sender_wake' = now + update_interval * SecMs
            /\ taskHist' = [taskHist EXCEPT !.sent = TRUE,
                                            !.late = IF running THEN @ ELSE Min(2, @ + 1),
                                            !.most = Max(@, FramesOf("telemetry"))]
       ELSE /\ data_sender' = "none"
            /\ taskHist' = [taskHist EXCEPT !.failed = "send_err", !.failedAt = now,
                                            !.most = Max(@, FramesOf("telemetry"))]
            /\ UNCHANGED sender_wake
    /\ UNCHANGED <<now, connVars, updVars, cmdVars, ipmiVars, raceVars, receiver, read_deadline,
                   last_message_received>>

SenderSend(sendOk) == SenderSendFrom("lock", sendOk)

\* data_sender holds the sink: send_data returns the Err of discover_sensors
\* or discover_fans (read_dir of the hwmon base fails) before anything is
\* written; the loop breaks
SenderCollectFailFrom(at) ==
    /\ data_sender = at
    /\ LockGranted(write_queue, "data_sender")
    /\ write_queue' = Tail(write_queue)
    /\ data_sender' = "none"
    /\ taskHist' = [taskHist EXCEPT !.failed = "collect_err", !.failedAt = now]
    /\ UNCHANGED <<receiver, read_deadline, sender_wake, last_message_received>>
    /\ TaskStepOnly

SenderCollectFail == SenderCollectFailFrom("lock")

\* data_sender: the sleep of update_interval is over
SenderWake ==
    /\ data_sender = "sleep"
    /\ now >= sender_wake
    /\ data_sender' = "check"
    /\ UNCHANGED <<receiver, write_queue, read_deadline, sender_wake,
                   last_message_received, taskHist>>
    /\ TaskStepOnly

\* the receive loop never sees the shutdown request
ShutdownRequestedNever(r) == FALSE

\* receive loop: `if !*self.running.read().await { break }`
ShutdownRequested(r) == ~r

\* the receive loop is left: data_sender.abort(), data_sender.await, Ok(())
\* goes back to run, which enters failsafe mode and waits or returns
ConnectionEnds(cause) ==
    /\ AfterConnectCore(C, now, TRUE, TRUE, TaskIo)
    /\ TasksEnded
    /\ taskHist' = [taskHist EXCEPT !.end = cause, !.endSilence = now - taskHist.activity]

CONNECTION_HEALTH_TIMEOUT_SECS == 30

\* a health check that gives up at the 30th second
HealthExpiredAtThirty(elapsed) == elapsed \div SecMs >= CONNECTION_HEALTH_TIMEOUT_SECS

\* `elapsed_since_last_message.as_secs() > CONNECTION_HEALTH_TIMEOUT_SECS`
HealthExpired(elapsed) == elapsed \div SecMs > CONNECTION_HEALTH_TIMEOUT_SECS

\* receive loop, top: shutdown requested, no frame for too long, else
\* time::timeout(1 s, read.next())
ReceiverTopH(secs) ==
    /\ pc = "online"
    /\ receiver = "top"
    /\ IF ShutdownRequested(running)
       THEN ConnectionEnds("shutdown")
       ELSE IF HealthExpired(now - last_message_received)
       THEN ConnectionEnds("health")
       ELSE /\ WithinHorizon(SecMs, secs)
            /\ receiver' = "read"
            /\ read_deadline' = now + SecMs
            /\ UNCHANGED <<data_sender, write_queue, sender_wake,
                           last_message_received, taskHist>>
            /\ TaskStepOnly

ReceiverTop == ReceiverTopH(MaxStopSecs)

\* receive loop: a Text frame arrives, `write.lock().await`
ReceiverText ==
    /\ receiver = "read"
    /\ receiver' = "lock"
    /\ write_queue' = Append(write_queue, "receiver")
    /\ last_message_received' = now
    /\ taskHist' = [taskHist EXCEPT !.activity = now]
    /\ UNCHANGED <<data_sender, read_deadline, sender_wake>>
    /\ TaskStepOnly

\* receive loop: a ping, pong or other frame arrives
ReceiverOther ==
    /\ receiver = "read"
    /\ receiver' = "top"
    /\ last_message_received' = now
    /\ taskHist' = [taskHist EXCEPT !.activity = now]
    /\ UNCHANGED <<data_sender, write_queue, read_deadline, sender_wake>>
    /\ TaskStepOnly

\* receive loop: no frame within the second
ReceiverTimeout ==
    /\ receiver = "read"
    /\ now >= read_deadline
    /\ receiver' = "top"
    /\ UNCHANGED <<data_sender, write_queue, read_deadline, sender_wake,
                   last_message_received, taskHist>>
    /\ TaskStepOnly

\* receive loop: Close frame, stream error or end of the stream while reading
ReceiverLost ==
    /\ pc = "online"
    /\ receiver = "read"
    /\ ConnectionEnds("lost")

\* kinds of Text frame: {"type": "ping"} and a setFanSpeed command
TextKinds == {"ping", "setFanSpeed"}

\* receive loop holds the sink: handle_message, the guard is dropped
ReceiverHandleFrom(at, kind) ==
    /\ receiver = at
    /\ LockGranted(write_queue, "receiver")
    /\ write_queue' = Tail(write_queue)
    /\ receiver' = "top"
    /\ IF kind = "setFanSpeed"
       THEN ApplyM(MCall(M, <<"nct">>, 50, now, TaskIo))
       ELSE UNCHANGED <<hwVars, fanVars, sensVars>>
    /\ taskHist' = [taskHist EXCEPT !.most = Max(@, FramesOf(kind))]
    /\ UNCHANGED <<now, connVars, updVars, cmdVars, ipmiVars, raceVars, data_sender,
                   read_deadline, sender_wake, last_message_received>>

ReceiverHandle(kind) == ReceiverHandleFrom("lock", kind)

\* the timers that are armed, as the instants they expire
Deadlines ==
    (IF pc = "connecting" THEN {connect_start + connection_timeout * SecMs} ELSE {})
    \cup (IF pc = "backoff" THEN {sleep_until} ELSE {})
    \cup (IF receiver = "read" THEN {read_deadline} ELSE {})
    \cup (IF data_sender = "sleep" THEN {sender_wake} ELSE {})

\* time passes up to the first timer that expires; the horizon ends the
\* attempts and waits of a running client
TaskSleepH(secs) ==
    /\ Deadlines # {}
    /\ \A d \in Deadlines : now < d
    /\ LET first == CHOOSE d \in Deadlines : \A e \in Deadlines : d <= e
       IN /\ (running /\ pc # "online") => first <= secs * SecMs
          /\ now' = first
    /\ UNCHANGED <<hwVars, fanVars, sensVars, connVars, updVars, extVars>>

TaskSleep == TaskSleepH(MaxStopSecs)

NextStop ==
    \/ ConnStart
    \/ TaskSleep
    \/ ConnectFail("ok")
    \/ \E sendOk \in BOOLEAN : ConnectOk(sendOk, "ok")
    \/ Spawn
    \/ SenderCheck
    \/ \E sendOk \in BOOLEAN : SenderSend(sendOk)
    \/ SenderCollectFail
    \/ SenderWake
    \/ ReceiverTop
    \/ ReceiverText
    \/ ReceiverOther
    \/ ReceiverTimeout
    \/ ReceiverLost
    \/ \E kind \in TextKinds : ReceiverHandle(kind)
    \/ BackoffPoll("ok")
    \/ BackoffBreak
    \/ BackoffEnd
    \/ ConnStop

\* when data_sender is first in the queue of the sink its send_data can run
SenderSendEnabled ==
    data_sender = "lock" /\ write_queue # <<>> /\ Head(write_queue) = "data_sender"

\* when the receive loop is at its top the flag check can run
ReceiverTopEnabled ==
    /\ pc = "online"
    /\ receiver = "top"
    /\ (running /\ ~HealthExpired(now - last_message_received))
          => WithinHorizon(SecMs, MaxStopSecs)

\* when the receive loop is first in the queue of the sink handle_message can run
ReceiverHandleEnabled ==
    receiver = "lock" /\ write_queue # <<>> /\ Head(write_queue) = "receiver"

\* the wait loop of run is due for its next failsafe check
BackoffPollEnabled ==
    pc = "backoff" /\ now >= sleep_until /\ now - wait_start < wait_duration /\ running

\* tokio runs every task that can make a step, every timer expires, the
\* handshake is over after connection_timeout at the latest, and a write to
\* the sink returns (Ok or Err). The conditions on the actions that call the
\* hardware monitor are weak fairness too, written with the enabling
\* condition spelled out.
FairStop ==
    /\ WF_vars(TaskSleep)
    /\ []<>~(pc = "connecting") \/ []<><<ConnectFail("ok")>>_vars
    /\ WF_vars(Spawn)
    /\ WF_vars(SenderCheck)
    /\ []<>~SenderSendEnabled \/ []<><<\E sendOk \in BOOLEAN : SenderSend(sendOk)>>_vars
    /\ WF_vars(SenderWake)
    /\ []<>~ReceiverTopEnabled \/ []<><<ReceiverTop>>_vars
    /\ WF_vars(ReceiverTimeout)
    /\ []<>~ReceiverHandleEnabled \/ []<><<\E kind \in TextKinds : ReceiverHandle(kind)>>_vars
    /\ []<>~BackoffPollEnabled \/ []<><<BackoffPoll("ok")>>_vars
    /\ WF_vars(BackoffBreak)
    /\ WF_vars(BackoffEnd)

SpecStop == InitConn /\ [][NextStop]_vars /\ FairStop

\* ------------------------------------ health-check specification (SpecHealth)
\* One connection followed for longer than the health timeout: frames arrive
\* or stay away, the telemetry cycle succeeds or fails, and the wait that
\* follows the end of the connection is polled.
NextHealth ==
    \/ ConnStart
    \/ TaskSleepH(MaxHealthSecs)
    \/ ConnectOk(TRUE, "ok")
    \/ Spawn
    \/ SenderCheckH(MaxHealthSecs)
    \/ \E sendOk \in BOOLEAN : SenderSend(sendOk)
    \/ SenderCollectFail
    \/ SenderWake
    \/ ReceiverTopH(MaxHealthSecs)
    \/ ReceiverText
    \/ ReceiverOther
    \/ ReceiverTimeout
    \/ ReceiverLost
    \/ ReceiverHandle("ping")
    \/ BackoffPoll("ok")

SpecHealth == InitConn /\ [][NextHealth]_vars

\* ---------------------------------------------------------------------
\* Sink specification: the guard of the write half is taken in one step and
\* the frame is written in a later one, so that the steps of the other
\* task fall between
\* ---------------------------------------------------------------------

\* data_sender: `write_clone.lock().await` returns, send_data starts
SenderAcquire ==
    /\ data_sender = "lock"
    /\ LockGranted(write_queue, "data_sender")
    /\ data_sender' = "send"
    /\ UNCHANGED <<receiver, write_queue, read_deadline, sender_wake,
                   last_message_received, taskHist>>
    /\ TaskStepOnly

\* data_sender: send_data returns and the guard is dropped
SenderWrite(sendOk) == SenderSendFrom("send", sendOk)

\* data_sender: send_data fails before the frame and the guard is dropped
SenderCollectFailHeld == SenderCollectFailFrom("send")

\* receive loop: `write.lock().await` returns, handle_message starts
ReceiverAcquire ==
    /\ receiver = "lock"
    /\ LockGranted(write_queue, "receiver")
    /\ receiver' = "handle"
    /\ UNCHANGED <<data_sender, write_queue, read_deadline, sender_wake,
                   last_message_received, taskHist>>
    /\ TaskStepOnly

\* receive loop: handle_message returns and the guard is dropped
ReceiverWrite(kind) == ReceiverHandleFrom("handle", kind)

NextSink ==
    \/ ConnStart
    \/ TaskSleep
    \/ ConnectOk(TRUE, "ok")
    \/ Spawn
    \/ SenderCheck
    \/ SenderAcquire
    \/ \E sendOk \in BOOLEAN : SenderWrite(sendOk)
    \/ SenderCollectFailHeld
    \/ SenderWake
    \/ ReceiverTop
    \/ ReceiverText
    \/ ReceiverOther
    \/ ReceiverTimeout
    \/ ReceiverLost
    \/ ReceiverAcquire
    \/ \E kind \in TextKinds : ReceiverWrite(kind)
    \/ BackoffPoll("ok")
    \/ ConnStop

SpecSink == InitConn /\ [][NextSink]_vars

\* ------------------------------------- self-update specification (SpecUpd)
\* Binaries: "v0" is the installed agent; a download is an agent that works
\* ("good"), one that passes both sanity checks but goes down before it handles
\* a frame ("bad"), a truncated file ("small"), or a file of plausible size that
\* does not execute ("noexec").
Downloads == {"good", "bad", "small", "noexec"}
Runnable(b) == b \in {"v0", "good", "bad"}
Usable(b) == b \in {"v0", "good"}

\* `binary_size < 1_000_000`
TooSmall(b) == b = "small"
\* `<current>.new --version` exits with success
VersionRuns(b) == b \in {"v0", "good", "bad"}

nonUpdVars == <<now, hwVars, fanVars, sensVars, connVars, extVars>>

\* handle_command "selfUpdate" spawns self_update; the task runs curl, which
\* writes <current>.new (a failed transfer leaves a partial file)
UpdDownload(b, curlOk) ==
    /\ ppc \in {"up", "online"}
    /\ proc # "bad"
    /\ upc = "idle"
    /\ newBin' = IF curlOk THEN b ELSE "small"
    /\ upc' = IF curlOk THEN "downloaded" ELSE "idle"
    /\ UNCHANGED <<curBin, oldBin, marker, proc, ppc, updHist, nonUpdVars>>

\* self_update: size check, then execution check; a rejected file is removed
UpdSanity ==
    /\ upc = "downloaded"
    /\ IF TooSmall(newBin) \/ ~VersionRuns(newBin)
       THEN newBin' = NoFile /\ upc' = "idle"
       ELSE newBin' = newBin /\ upc' = "verified"
    /\ UNCHANGED <<curBin, oldBin, marker, proc, ppc, updHist, nonUpdVars>>

\* self_update: remove an existing .old, rename current -> .old
UpdBackup(ok) ==
    /\ upc = "verified"
    /\ IF ok
       THEN oldBin' = curBin /\ curBin' = NoFile /\ upc' = "backed"
       ELSE oldBin' = NoFile /\ curBin' = curBin /\ upc' = "idle"
    /\ UNCHANGED <<newBin, marker, proc, ppc, updHist, nonUpdVars>>

\* self_update: rename .new -> current; on failure rename .old -> current,
\* whose own failure is ignored
UpdInstall(ok, rbOk) ==
    /\ upc = "backed"
    /\ IF ok
       THEN /\ curBin' = newBin
            /\ newBin' = NoFile
            /\ oldBin' = oldBin
            /\ upc' = "installed"
            /\ updHist' = [updHist EXCEPT !.verifying = TRUE, !.procNew = FALSE,
                                          !.unreg = FALSE]
       ELSE /\ curBin' = IF rbOk THEN oldBin ELSE NoFile
            /\ oldBin' = IF rbOk THEN NoFile ELSE oldBin
            /\ newBin' = newBin
            /\ upc' = "idle"
            /\ updHist' = updHist
    /\ UNCHANGED <<marker, proc, ppc, nonUpdVars>>

\* a marker written with the booted key already in it
FreshMarkerBooted == "booted"

\* `format!("from={}\nto={}", ..)`: the marker as self_update writes it
FreshMarker == "pending"

\* self_update: write .update_pending; a failure is logged
UpdMarker(ok) ==
    /\ upc = "installed"
    /\ marker' = IF ok THEN FreshMarker ELSE marker
    /\ upc' = "marked"
    /\ updHist' = IF ok THEN [updHist EXCEPT !.firstBoot = FALSE] ELSE updHist
    /\ UNCHANGED <<curBin, oldBin, newBin, proc, ppc, nonUpdVars>>

\* self_update: `systemctl restart` is spawned and the task returns Ok, or the
\* process image is replaced by exec (spawn-and-exit when exec fails)
UpdRestart(systemd) ==
    /\ upc = "marked"
    /\ upc' = "idle"
    /\ IF systemd
       THEN UNCHANGED <<proc, ppc>>
       ELSE proc' = NoFile /\ ppc' = "down"
    /\ UNCHANGED <<curBin, oldBin, newBin, marker, updHist, nonUpdVars>>

\* handle_message "registered": when the marker exists remove it, then remove
\* .old when it exists; each failure is logged
Registered(mOk, oOk) ==
    /\ ppc \in {"up", "online"}
    /\ proc # "bad"
    /\ ppc' = "online"
    /\ IF marker # NoFile
       THEN /\ marker' = IF mOk THEN NoFile ELSE marker
            /\ oldBin' = IF oldBin # NoFile /\ oOk THEN NoFile ELSE oldBin
       ELSE UNCHANGED <<marker, oldBin>>
    /\ updHist' = IF updHist.procNew
                  THEN [updHist EXCEPT !.verifying = FALSE, !.unreg = FALSE]
                  ELSE updHist
    /\ UNCHANGED <<curBin, newBin, proc, upc, nonUpdVars>>

\* the agent process crashes, exits or is killed (by the service manager too)
Crash ==
    /\ ppc # "down"
    /\ ppc' = "down"
    /\ proc' = NoFile
    /\ upc' = "idle"
    /\ updHist' = [updHist EXCEPT
                     !.unreg = @ \/ (updHist.procNew /\ updHist.verifying),
                     !.procNew = FALSE]
    /\ UNCHANGED <<curBin, oldBin, newBin, marker, nonUpdVars>>

\* a startup that never finds the booted key
MarkerBootedNever(m) == FALSE

\* startup: the marker contains `booted=true`
MarkerBooted(m) == m = "booted"

\* process start with the startup check of the update marker: with marker and
\* backup present, a marker with booted=true renames .old over the current
\* binary, removes the marker and re-executes; a marker without it gets
\* booted=true appended and startup continues
Boot ==
    /\ ppc = "down"
    /\ Runnable(curBin)
    /\ ppc' = "up"
    /\ IF marker # NoFile /\ oldBin # NoFile
       THEN IF MarkerBooted(marker)
            THEN /\ curBin' = oldBin
                 /\ oldBin' = NoFile
                 /\ marker' = NoFile
                 /\ proc' = oldBin
                 /\ updHist' = [updHist EXCEPT
                       !.lastBoot = "rollback", !.bootUnreg = updHist.unreg,
                       !.verifying = FALSE, !.procNew = FALSE, !.unreg = FALSE]
            ELSE /\ marker' = "booted"
                 /\ proc' = curBin
                 /\ UNCHANGED <<curBin, oldBin>>
                 /\ updHist' = [updHist EXCEPT
                       !.lastBoot = "first", !.bootUnreg = updHist.unreg,
                       !.procNew = updHist.verifying, !.firstBoot = TRUE]
       ELSE /\ proc' = curBin
            /\ UNCHANGED <<curBin, oldBin, marker>>
            /\ updHist' = [updHist EXCEPT
                  !.lastBoot = "plain", !.bootUnreg = updHist.unreg,
                  !.procNew = updHist.verifying]
    /\ UNCHANGED <<newBin, upc, nonUpdVars>>

\* the agent of the connection specification, installed and registered
InitUpd == InitConn

NextUpd ==
    \/ \E b \in Downloads, curlOk \in BOOLEAN : UpdDownload(b, curlOk)
    \/ UpdSanity
    \/ \E ok \in BOOLEAN : UpdBackup(ok)
    \/ \E ok \in BOOLEAN, rbOk \in BOOLEAN : UpdInstall(ok, rbOk)
    \/ \E ok \in BOOLEAN : UpdMarker(ok)
    \/ \E systemd \in BOOLEAN : UpdRestart(systemd)
    \/ \E mOk \in BOOLEAN, oOk \in BOOLEAN : Registered(mOk, oOk)
    \/ Crash
    \/ Boot

SpecUpd == InitUpd /\ [][NextUpd]_vars

\* ---------------------------------------------------------------------
\* Self-update specification with two selfUpdate commands: handle_command
\* spawns one self_update task per command and then sends the response; the
\* tasks run on the worker threads of the runtime and work on the same
\* <current>, <current>.new and <current>.old
\* ---------------------------------------------------------------------
\* `tokio::time::sleep(Duration::from_secs(1))` before self_update, in ms
SelfUpdateDelayMs == 1000
UpdTickMs == 500
MaxUpdTicks == 4

\* a spawned task that does not wait before self_update
SleepOverAtOnce(spawnAt, t) == TRUE

\* the sleep of the spawned task is over
SleepOver(spawnAt, t) == t >= spawnAt + SelfUpdateDelayMs

\* positions of a task between its download and its restart
UpdWorking == {"downloaded", "verified", "backed", "installed", "marked"}

selfElse == UNCHANGED <<hwVars, fanVars, sensVars, connVars, extVars>>

TaskAt(c, at) == [updHist EXCEPT !.tasks[c].pc = at]

UpdTick ==
    /\ now < MaxUpdTicks * UpdTickMs
    /\ now' = now + UpdTickMs
    /\ UNCHANGED <<updVars>>
    /\ selfElse

\* handle_command "selfUpdate": clone_for_update, tokio::spawn, (true, None, ..)
SelfUpdateCommand(c) ==
    /\ ppc \in {"up", "online"}
    /\ updHist.handler = "idle"
    /\ updHist.tasks[c].pc = "idle"
    /\ updHist' = [updHist EXCEPT !.handler = c,
                                  !.tasks[c] = [NoUpdTask EXCEPT !.pc = "sleeping",
                                                                 !.spawnAt = now,
                                                                 !.resp = "pending"]]
    /\ UNCHANGED <<now, curBin, oldBin, newBin, marker, proc, ppc, upc>>
    /\ selfElse

\* handle_command: `write.send(Message::Text(response)).await?` completes
SendResponse(c, sendOk) ==
    /\ ppc \in {"up", "online"}
    /\ updHist.handler = c
    /\ updHist' = [updHist EXCEPT
                     !.handler = "idle",
                     !.tasks[c].resp =
                        IF ~sendOk THEN "failed"
                        ELSE IF now < updHist.tasks[c].spawnAt + SelfUpdateDelayMs
                        THEN "in_delay" ELSE "late"]
    /\ UNCHANGED <<now, curBin, oldBin, newBin, marker, proc, ppc, upc>>
    /\ selfElse

\* self_update: curl -L -o <current>.new
TaskDownload(c, b, curlOk) ==
    /\ ppc \in {"up", "online"}
    /\ updHist.tasks[c].pc = "sleeping"
    /\ SleepOver(updHist.tasks[c].spawnAt, now)
    /\ newBin' = IF curlOk THEN b ELSE "small"
    /\ updHist' = TaskAt(c, IF curlOk THEN "downloaded" ELSE "done")
    /\ UNCHANGED <<now, curBin, oldBin, marker, proc, ppc, upc>>
    /\ selfElse

\* self_update: size check, then execution check; a rejected file is removed
TaskSanity(c) ==
    /\ updHist.tasks[c].pc = "downloaded"
    /\ IF newBin = NoFile \/ TooSmall(newBin) \/ ~VersionRuns(newBin)
       THEN newBin' = NoFile /\ updHist' = TaskAt(c, "done")
       ELSE newBin' = newBin /\ updHist' = TaskAt(c, "verified")
    /\ UNCHANGED <<now, curBin, oldBin, marker, proc, ppc, upc>>
    /\ selfElse

\* self_update: remove an existing .old, rename current -> .old
TaskBackup(c, ok) ==
    /\ updHist.tasks[c].pc = "verified"
    /\ IF ok /\ curBin # NoFile
       THEN oldBin' = curBin /\ curBin' = NoFile /\ updHist' = TaskAt(c, "backed")
       ELSE oldBin' = NoFile /\ curBin' = curBin /\ updHist' = TaskAt(c, "done")
    /\ UNCHANGED <<now, newBin, marker, proc, ppc, upc>>
    /\ selfElse

\* self_update: rename .new -> current; on failure rename .old -> current
TaskInstall(c, ok, rbOk) ==
    /\ updHist.tasks[c].pc = "backed"
    /\ IF ok /\ newBin # NoFile
       THEN /\ curBin' = newBin
            /\ newBin' = NoFile
            /\ oldBin' = oldBin
            /\ updHist' = [updHist EXCEPT
                             !.tasks[c].pc = "installed",
                             !.tasks[c].swapped = TRUE,
                             !.tasks[c].respFirst =
                                updHist.tasks[c].resp \in {"in_delay", "late"}]
       ELSE /\ curBin' = IF rbOk /\ curBin = NoFile THEN oldBin ELSE curBin
            /\ oldBin' = IF rbOk /\ curBin = NoFile THEN NoFile ELSE oldBin
            /\ newBin' = newBin
            /\ updHist' = TaskAt(c, "done")
    /\ UNCHANGED <<now, marker, proc, ppc, upc>>
    /\ selfElse

\* self_update: write .update_pending; a failure is logged
TaskMarker(c, ok) ==
    /\ updHist.tasks[c].pc = "installed"
    /\ marker' = IF ok THEN FreshMarker ELSE marker
    /\ updHist' = TaskAt(c, "marked")
    /\ UNCHANGED <<now, curBin, oldBin, newBin, proc, ppc, upc>>
    /\ selfElse

\* self_update: `systemctl restart` is spawned and the task returns Ok, or the
\* process image is replaced by exec and every task of the process ends
TaskRestart(c, systemd) ==
    /\ updHist.tasks[c].pc = "marked"
    /\ IF systemd
       THEN /\ updHist' = TaskAt(c, "done")
            /\ UNCHANGED <<proc, ppc>>
       ELSE /\ updHist' = [updHist EXCEPT
                             !.handler = "idle",
                             !.tasks = [d \in UpdTasks |->
                                          IF @[d].pc \in {"idle", "done"} THEN @[d]
                                          ELSE [@[d] EXCEPT !.pc = "gone"]]]
            /\ proc' = NoFile /\ ppc' = "down"
    /\ UNCHANGED <<now, curBin, oldBin, newBin, marker, upc>>
    /\ selfElse

NextSelf ==
    \/ UpdTick
    \/ \E c \in UpdTasks : SelfUpdateCommand(c)
    \/ \E c \in UpdTasks, sendOk \in BOOLEAN : SendResponse(c, sendOk)
    \/ \E c \in UpdTasks, b \in Downloads, curlOk \in BOOLEAN : TaskDownload(c, b, curlOk)
    \/ \E c \in UpdTasks : TaskSanity(c)
    \/ \E c \in UpdTasks, ok \in BOOLEAN : TaskBackup(c, ok)
    \/ \E c \in UpdTasks, ok \in BOOLEAN, rbOk \in BOOLEAN : TaskInstall(c, ok, rbOk)
    \/ \E c \in UpdTasks, ok \in BOOLEAN : TaskMarker(c, ok)
    \/ \E c \in UpdTasks, systemd \in BOOLEAN : TaskRestart(c, systemd)

SpecSelf == InitUpd /\ [][NextSelf]_vars

\* ---------------------------------------------- commands and tunable setters
\* The closed sets the build step emits into sst_validation.rs (included by
\* config/sst.rs); f64 sets in tenths, emergency temperatures as the u8 array
\* the setter compares against.
VALID_UPDATE_INTERVALS == {5, 10, 20, 30, 50, 70, 100, 150, 300}
VALID_FAN_STEPS == {2, 3, 5, 7, 10, 15, 25, 50, 100}
VALID_HYSTERESIS == {0, 5, 10, 15, 20, 25, 30, 40, 50, 75, 100}
VALID_EMERGENCY_TEMPS == {60, 65, 70, 75, 80, 85, 90, 95, 100}
VALID_FAILSAFE_SPEEDS == {0, 10, 20, 30, 40, 50, 60, 70, 80, 90, 100}
VALID_LOG_LEVELS == {"TRACE", "DEBUG", "INFO", "WARN", "ERROR", "CRITICAL"}

\* `x as u8` of a u64: keeps the low eight bits
AsU8(n) == n % 256

\* `temp as u8` of a non-negative f64 given in tenths: drops the fraction and
\* saturates at 255
F64AsU8(tenths) == Min(255, tenths \div 10)

\* str::to_uppercase on the level strings used here
ToUpper(t) ==
    IF t = "debug" THEN "DEBUG" ELSE IF t = "warn" THEN "WARN" ELSE t

\* str::trim on the names used here
Trim(t) == IF t = " " THEN "" ELSE IF t = " rack1 " THEN "rack1" ELSE t

SetterDone(cfg, saveOk) ==
    [config |-> cfg, res |-> IF saveOk THEN "ok" ELSE "save_failed",
     errField |-> "none", errListsSet |-> FALSE]

SetterInvalid(cfg, field, lists) ==
    [config |-> cfg, res |-> "invalid", errField |-> field, errListsSet |-> lists]

set_update_interval(cfg, interval, saveOk) ==
    IF interval \notin VALID_UPDATE_INTERVALS
    THEN SetterInvalid(cfg, "interval", TRUE)
    ELSE SetterDone([cfg EXCEPT !.update_interval = interval], saveOk)

set_fan_step(cfg, step, saveOk) ==
    IF step \notin VALID_FAN_STEPS
    THEN SetterInvalid(cfg, "fan step", TRUE)
    ELSE SetterDone([cfg EXCEPT !.fan_step_percent = step], saveOk)

set_hysteresis(cfg, hysteresis, saveOk) ==
    IF hysteresis \notin VALID_HYSTERESIS
    THEN SetterInvalid(cfg, "hysteresis", TRUE)
    ELSE SetterDone([cfg EXCEPT !.hysteresis_temp = hysteresis], saveOk)

\* validates the truncated value, stores the f64 it was given
set_emergency_temp(cfg, temp, saveOk) ==
    IF F64AsU8(temp) \notin VALID_EMERGENCY_TEMPS
    THEN SetterInvalid(cfg, "emergency temp", TRUE)
    ELSE SetterDone([cfg EXCEPT !.emergency_temp = temp], saveOk)

\* compares ignoring case, stores the upper-case form
set_log_level(cfg, level, saveOk) ==
    IF ToUpper(level) \notin VALID_LOG_LEVELS
    THEN SetterInvalid(cfg, "log level", TRUE)
    ELSE SetterDone([cfg EXCEPT !.log_level = ToUpper(level)], saveOk)

set_failsafe_speed(cfg, speed, saveOk) ==
    IF speed \notin VALID_FAILSAFE_SPEEDS
    THEN SetterInvalid(cfg, "failsafe speed", TRUE)
    ELSE SetterDone([cfg EXCEPT !.failsafe_speed = speed], saveOk)

set_enable_fan_control(cfg, enabled, saveOk) ==
    SetterDone([cfg EXCEPT !.enable_fan_control = enabled], saveOk)

set_agent_name(cfg, name, saveOk) ==
    IF Trim(name) = ""
    THEN SetterInvalid(cfg, "agent name", FALSE)
    ELSE SetterDone([cfg EXCEPT !.name = Trim(name)], saveOk)

SetterNames == {"set_update_interval", "set_fan_step", "set_hysteresis",
                "set_emergency_temp", "set_log_level", "set_failsafe_speed"}

\* the setter `name` applied to the number `n` or the string `t`
CallSetter(name, cfg, n, t, saveOk) ==
    IF name = "set_update_interval" THEN set_update_interval(cfg, n, saveOk)
    ELSE IF name = "set_fan_step" THEN set_fan_step(cfg, n, saveOk)
    ELSE IF name = "set_hysteresis" THEN set_hysteresis(cfg, n, saveOk)
    ELSE IF name = "set_emergency_temp" THEN set_emergency_temp(cfg, n, saveOk)
    ELSE IF name = "set_log_level" THEN set_log_level(cfg, t, saveOk)
    ELSE IF name = "set_failsafe_speed" THEN set_failsafe_speed(cfg, n, saveOk)
    ELSE IF name = "set_enable_fan_control"
         THEN set_enable_fan_control(cfg, n = 1, saveOk)
    ELSE set_agent_name(cfg, t, saveOk)

\* observation of one setter call
SetterCall(name, n, t, r) ==
    [name |-> name, arg |-> n, text |-> t, res |-> r.res,
     errField |-> r.errField, errListsSet |-> r.errListsSet]

\* outcome of one arm of the match in handle_command
Arm(cfg, success, call, spawned, hwCall) ==
    [config |-> cfg, success |-> success, setter |-> call, spawned |-> spawned,
     hwCall |-> hwCall]

Plain(cfg, success) == Arm(cfg, success, NoSetterCall, FALSE, "none")

\* an arm that extracts one payload field and hands it to a setter
SetterArm(cfg, name, present, n, t, saveOk) ==
    IF ~present THEN Plain(cfg, FALSE)
    ELSE LET r == CallSetter(name, cfg, n, t, saveOk)
         IN Arm(r.config, r.res = "ok", SetterCall(name, n, t, r), FALSE, "none")

\* the match on command_type; payload fields are msg.num and msg.text
Dispatch(cfg, msg, hwOk, saveOk) ==
    LET ty == msg.type
        n == msg.num
        t == msg.text
    IN  IF ty = "setFanSpeed" THEN
            IF ~cfg.enable_fan_control THEN Plain(cfg, TRUE)
            ELSE IF t = NoText \/ n = NoNum THEN Plain(cfg, FALSE)
            ELSE IF Trim(t) = "" THEN Plain(cfg, FALSE)
            ELSE IF n > 100 THEN Plain(cfg, FALSE)
            ELSE Arm(cfg, hwOk, NoSetterCall, FALSE, "set_fan_speed")
        ELSE IF ty = "emergencyStop" THEN
            Arm(cfg, hwOk, NoSetterCall, FALSE, "emergency_stop")
        ELSE IF ty = "setUpdateInterval" THEN
            SetterArm(cfg, "set_update_interval", n # NoNum, n, NoText, saveOk)
        ELSE IF ty = "setFanStep" THEN
            SetterArm(cfg, "set_fan_step", n # NoNum, AsU8(n), NoText, saveOk)
        ELSE IF ty = "setHysteresis" THEN
            SetterArm(cfg, "set_hysteresis", n # NoNum, n, NoText, saveOk)
        ELSE IF ty = "setEmergencyTemp" THEN
            SetterArm(cfg, "set_emergency_temp", n # NoNum, n, NoText, saveOk)
        ELSE IF ty = "setLogLevel" THEN
            SetterArm(cfg, "set_log_level", t # NoText, NoNum, t, saveOk)
        ELSE IF ty = "setFailsafeSpeed" THEN
            SetterArm(cfg, "set_failsafe_speed", n # NoNum, AsU8(n), NoText, saveOk)
        ELSE IF ty = "setEnableFanControl" THEN
            SetterArm(cfg, "set_enable_fan_control", n # NoNum, n, NoText, saveOk)
        ELSE IF ty = "setAgentName" THEN
            SetterArm(cfg, "set_agent_name", t # NoText, NoNum, t, saveOk)
        ELSE IF ty = "selfUpdate" THEN
            Arm(cfg, TRUE, NoSetterCall, TRUE, "none")
        ELSE IF ty = "ping" THEN Plain(cfg, TRUE)
        ELSE IF ty = "getDiagnostics" THEN
            Arm(cfg, hwOk, NoSetterCall, FALSE, "dump_hardware_info")
        ELSE Plain(cfg, FALSE)

\* the commandResponse frame: data is always present, error only on failure
CommandResponse(id, success) ==
    [type |-> "commandResponse", commandId |-> id, success |-> success,
     data |-> TRUE, error |-> ~success]

\* WebSocketClient::handle_command as a function of the frame
HandleCommandOn(cfg, msg, hwOk, saveOk, sendOk) ==
    LET early(e) == [config |-> cfg,
                     hist |-> [NoCmdHist EXCEPT !.msg = msg, !.err = e,
                                                !.before = cfg]]
    IN  IF msg.type = NoField THEN early("Missing or invalid command type")
        ELSE IF msg.commandId = NoField THEN early("Missing command ID")
        ELSE IF ~msg.hasPayload THEN early("Missing command payload")
        ELSE LET a == Dispatch(cfg, msg, hwOk, saveOk)
             IN [config |-> a.config,
                 hist |-> [msg |-> msg,
                           out |-> IF sendOk
                                   THEN <<CommandResponse(msg.commandId, a.success)>>
                                   ELSE <<>>,
                           err |-> IF sendOk THEN "none" ELSE "send failed",
                           before |-> cfg,
                           setter |-> a.setter,
                           spawned |-> a.spawned,
                           hwCall |-> a.hwCall,
                           count |-> 0]]

CmdKinds == {"setFanSpeed", "emergencyStop", "setUpdateInterval", "setFanStep",
             "setHysteresis", "setEmergencyTemp", "setLogLevel", "setFailsafeSpeed",
             "setEnableFanControl", "setAgentName", "selfUpdate", "ping",
             "getDiagnostics"}
CmdTypes == CmdKinds \cup {"reboot", NoField}
CmdIds == {NoField, "c1", "c2"}

\* payload numbers and strings tried per command type
NumsOf(ty) ==
    IF ty = "setFanSpeed" THEN {NoNum, 50, 101}
    ELSE IF ty = "setUpdateInterval" THEN {NoNum, 50, 40}
    ELSE IF ty = "setFanStep" THEN {NoNum, 10, 6, 261}
    ELSE IF ty = "setHysteresis" THEN {NoNum, 25, 33}
    ELSE IF ty = "setEmergencyTemp" THEN {NoNum, 900, 855, 870}
    ELSE IF ty = "setFailsafeSpeed" THEN {NoNum, 80, 75, 326}
    ELSE IF ty = "setEnableFanControl" THEN {NoNum, 0, 1}
    ELSE {NoNum}

TextsOf(ty) ==
    IF ty = "setFanSpeed" THEN {NoText, "fan1", " "}
    ELSE IF ty = "setLogLevel" THEN {NoText, "DEBUG", "debug", "VERBOSE"}
    ELSE IF ty = "setAgentName" THEN {NoText, " ", " rack1 "}
    ELSE {NoText}

CmdMessages ==
    UNION { [type : {ty}, commandId : CmdIds, hasPayload : BOOLEAN,
             num : NumsOf(ty), text : TextsOf(ty)] : ty \in CmdTypes }

\* what the environment lets fail while one command is handled: the BMC call,
\* the write of config.json, the write to the socket
CmdFaults == {"none", "hw", "save", "send"}

\* a text frame of type "command" arrives and handle_command runs on it
HandleCommand(msg, fault) ==
    /\ cmdHist.count < MaxCmds
    /\ LET r == HandleCommandOn(config, msg, fault # "hw", fault # "save",
                                fault # "send")
       IN /\ config' = r.config
          /\ cmdHist' = [r.hist EXCEPT !.count = cmdHist.count + 1]
    /\ UNCHANGED <<coreVars, ipmiVars, taskVars, raceVars>>

\* values handed to the setters by callers other than handle_command
SetterNums(name) ==
    IF name = "set_update_interval" THEN {50, 40}
    ELSE IF name = "set_fan_step" THEN {10, 6}
    ELSE IF name = "set_hysteresis" THEN {25, 33}
    ELSE IF name = "set_emergency_temp" THEN {900, 855, 870}
    ELSE IF name = "set_failsafe_speed" THEN {80, 75}
    ELSE {NoNum}

SetterTexts(name) ==
    IF name = "set_log_level" THEN {"DEBUG", "debug", "VERBOSE"} ELSE {NoText}

\* one call of a tunable setter
Setter(name, n, t, saveOk) ==
    /\ cmdHist.count < MaxCmds
    /\ LET r == CallSetter(name, config, n, t, saveOk)
       IN /\ config' = r.config
          /\ cmdHist' = [NoCmdHist EXCEPT !.before = config,
                                          !.setter = SetterCall(name, n, t, r),
                                          !.count = cmdHist.count + 1]
    /\ UNCHANGED <<coreVars, ipmiVars, taskVars, raceVars>>

NextCmd ==
    \/ \E msg \in CmdMessages, fault \in CmdFaults : HandleCommand(msg, fault)
    \/ \E name \in SetterNames, saveOk \in BOOLEAN :
           \E n \in SetterNums(name), t \in SetterTexts(name) : Setter(name, n, t, saveOk)

SpecCmd == InitConn /\ [][NextCmd]_vars


\* ------------------------------------------------ IPMI hardware monitor
\* one ipmitool process
Raw(bytes) == [tool |-> "raw", args |-> bytes]
Tool(t) == [tool |-> t, args |-> <<>>]

OpRes(mon, res, spawned) == [mon |-> mon, res |-> res, spawned |-> spawned]

\* IpmiHardwareMonitor::ipmi_protocol
ipmi_protocol(mon) == IF IsSome(mon.profile) THEN IpmiOf(mon.profile[1]) ELSE None

HasBytes(c) == IsSome(c.bytes)
RawOf(cmds) == [i \in 1..Len(cmds) |-> Raw(cmds[i].bytes[1])]

\* the loop over lifecycle commands: each command with bytes is run unless
\* dry_run; `stopAtCritical`: a failing critical command ends the loop
RunCommands(mon, cmds, failing, stopAtCritical) ==
    LET wb == SelectSeq(cmds, HasBytes)
        crit == {i \in 1..Len(wb) : wb[i].critical /\ i \in failing}
        first == CHOOSE i \in crit : \A j \in crit : i <= j
    IN  IF mon.dry_run THEN [ok |-> TRUE, spawned |-> <<>>, done |-> {}]
        ELSE IF stopAtCritical /\ crit # {}
             THEN [ok |-> FALSE, spawned |-> RawOf(SubSeq(wb, 1, first)),
                   done |-> (1..first) \ failing]
        ELSE [ok |-> TRUE, spawned |-> RawOf(wb), done |-> (1..Len(wb)) \ failing]

\* every ipmitool run of a call succeeds, or every one fails
AllOrNone(execOk) == IF execOk THEN {} ELSE 1..MaxLifecycleCmds

RunLifecycle(mon, cmds, execOk, stopAtCritical) ==
    RunCommands(mon, cmds, AllOrNone(execOk), stopAtCritical)

\* run_initialization, the ipmitool runs at the positions `failing` failing
run_initialization_of(mon, failing) ==
    LET r == RunCommands(mon, ipmi_protocol(mon)[1].lifecycle.initialization,
                         failing, TRUE)
    IN  IF r.ok THEN OpRes([mon EXCEPT !.initialized = TRUE], "ok", r.spawned)
        ELSE OpRes(mon, "err", r.spawned)

run_initialization(mon, execOk) == run_initialization_of(mon, AllOrNone(execOk))

\* run_reset_to_factory
run_reset_to_factory(mon, execOk) ==
    IF ~IsSome(ipmi_protocol(mon)) THEN OpRes(mon, "ok", <<>>)
    ELSE IF ~mon.initialized THEN OpRes(mon, "ok", <<>>)
    ELSE OpRes(mon, "ok",
               RunLifecycle(mon, ipmi_protocol(mon)[1].lifecycle.reset_to_factory,
                            execOk, FALSE).spawned)

\* get_sdr_csv, run after `before` (the outcome so far)
get_sdr_csv(before, execOk) ==
    IF before.mon.sdr_cached THEN before
    ELSE IF ~execOk THEN OpRes(before.mon, "err", Append(before.spawned, Tool("sdr")))
    ELSE OpRes([before.mon EXCEPT !.sdr_cached = TRUE], "ok",
               Append(before.spawned, Tool("sdr")))

ipmi_discover_sensors_of(mon, failing, sdrOk) ==
    IF ~IsSome(ipmi_protocol(mon)) THEN OpRes(mon, "err", <<>>)
    ELSE LET i == IF mon.initialized THEN OpRes(mon, "ok", <<>>)
                  ELSE run_initialization_of(mon, failing)
         IN IF i.res = "err" THEN i ELSE get_sdr_csv(i, sdrOk)

ipmi_discover_sensors(mon, execOk) ==
    ipmi_discover_sensors_of(mon, AllOrNone(execOk), execOk)

ipmi_discover_fans(mon, execOk) ==
    IF ~IsSome(ipmi_protocol(mon)) THEN OpRes(mon, "err", <<>>)
    ELSE get_sdr_csv(OpRes(mon, "ok", <<>>), execOk)

ZoneMatches(z, fan_id) == z.id = fan_id \/ fan_id = "all_fans" \/ fan_id = "all"

\* the ipmitool raw command of one zone at `speed`
ZoneCommand(zone, speed) ==
    Raw(interpolate_command(zone.commands.set_speed.bytes[1],
                            translate_speed(speed, zone.speed_translation)))

ZoneHasBytes(z) == IsSome(z.commands.set_speed.bytes)

ipmi_set_fan_speed(mon, fan_id, speed, execOk) ==
    IF ~IsSome(ipmi_protocol(mon)) THEN OpRes(mon, "err", <<>>)
    ELSE IF ~mon.enable_fan_control THEN OpRes(mon, "err", <<>>)
    ELSE LET all == ipmi_protocol(mon)[1].fan_zones
             zones == SelectSeq(all, LAMBDA z : ZoneMatches(z, fan_id))
             wb == SelectSeq(zones, ZoneHasBytes)
             cmds == [i \in 1..Len(wb) |-> ZoneCommand(wb[i], speed)]
         IN IF Len(zones) = 0 THEN OpRes(mon, "err", <<>>)
            ELSE IF mon.dry_run \/ Len(wb) = 0 THEN OpRes(mon, "ok", <<>>)
            ELSE IF ~execOk THEN OpRes(mon, "err", SubSeq(cmds, 1, 1))
            ELSE OpRes(mon, "ok", cmds)

ipmi_emergency_stop(mon, execOk) == run_reset_to_factory(mon, execOk)

ipmi_invalidate_cache(mon) == OpRes([mon EXCEPT !.sdr_cached = FALSE], "ok", <<>>)

\* dump_hardware_info: fru and mc info failures are swallowed, so is the sdr one
ipmi_dump_hardware_info(mon, execOk) ==
    LET s == get_sdr_csv(OpRes(mon, "ok", <<Tool("fru"), Tool("mc")>>), execOk)
    IN OpRes(s.mon, "ok", s.spawned)

ipmi_get_system_info(mon) == OpRes(mon, "ok", <<>>)

\* ---- the IPMI specification (SpecIpmi)
FanIds == {"all_fans", "zone0_cpu", "zone2", "zone9"}
Percents == {0, 29, 50, 100}

ipmiVarsUnchangedElse ==
    UNCHANGED <<coreVars, cmdVars, taskVars, raceVars, profile_file, base_file>>

\* IpmiHardwareMonitor::new
IpmiNew(dry, enable) ==
    /\ ~ipmi.built
    /\ LET r == load_profile(profile_file, base_file)
       IN /\ ipmi' = [NoIpmi EXCEPT !.built = TRUE, !.profile = r.profile,
                                    !.dry_run = dry, !.enable_fan_control = enable]
          /\ ipmiHist' = [NoIpmiHist EXCEPT !.op = "new", !.loadErr = r.err,
                                           !.resolved = r.resolved,
                                           !.res = IF r.err = "none" THEN "ok" ELSE "err"]
    /\ ipmiVarsUnchangedElse

IpmiOp(name, r, fan_id, speed) ==
    /\ ipmi.built
    /\ ipmi' = r.mon
    /\ ipmiHist' = [ipmiHist EXCEPT !.op = name, !.res = r.res, !.spawned = r.spawned,
                                    !.fan_id = fan_id, !.speed = speed]
    /\ ipmiVarsUnchangedElse

\* discover_sensors; the history keeps how often the initialization list was
\* run, whether the last run was aborted, and whether a command of it succeeded
IpmiDiscoverSensorsOf(failing, sdrOk) ==
    /\ ipmi.built
    /\ LET r == ipmi_discover_sensors_of(ipmi, failing, sdrOk)
           ran == IsSome(ipmi_protocol(ipmi)) /\ ~ipmi.initialized
           c == RunCommands(ipmi, ipmi_protocol(ipmi)[1].lifecycle.initialization,
                            failing, TRUE)
       IN /\ ipmi' = r.mon
          /\ ipmiHist' = [ipmiHist EXCEPT
                 !.op = "discover_sensors", !.res = r.res, !.spawned = r.spawned,
                 !.fan_id = "none", !.speed = 0,
                 !.inits = IF ran /\ Len(c.spawned) > 0 THEN Min(MaxInits, @ + 1) ELSE @,
                 !.aborted = IF ran THEN ~c.ok ELSE @,
                 !.touched = @ \/ (ran /\ c.done # {})]
    /\ ipmiVarsUnchangedElse

IpmiDiscoverSensors(execOk) == IpmiDiscoverSensorsOf(AllOrNone(execOk), execOk)
IpmiDiscoverFans(execOk) ==
    IpmiOp("discover_fans", ipmi_discover_fans(ipmi, execOk), "none", 0)
IpmiSetFanSpeed(fan_id, speed, execOk) ==
    IpmiOp("set_fan_speed", ipmi_set_fan_speed(ipmi, fan_id, speed, execOk), fan_id, speed)
IpmiEmergencyStop(execOk) ==
    IpmiOp("emergency_stop", ipmi_emergency_stop(ipmi, execOk), "none", 0)
IpmiInvalidateCache ==
    IpmiOp("invalidate_cache", ipmi_invalidate_cache(ipmi), "none", 0)
IpmiDumpHardwareInfo(execOk) ==
    IpmiOp("dump_hardware_info", ipmi_dump_hardware_info(ipmi, execOk), "none", 0)
IpmiGetSystemInfo ==
    IpmiOp("get_system_info", ipmi_get_system_info(ipmi), "none", 0)

InitIpmiSpec ==
    /\ InitConnCore
    /\ InitCmd
    /\ InitTask
    /\ InitRace
    /\ profile_file \in 0..Len(ProfileFiles)
    /\ base_file \in 0..Len(BaseFiles)
    /\ ipmi = NoIpmi
    /\ ipmiHist = NoIpmiHist

NextIpmi ==
    \/ \E dry \in BOOLEAN, enable \in BOOLEAN : IpmiNew(dry, enable)
    \/ \E execOk \in BOOLEAN : IpmiDiscoverSensors(execOk)
    \/ \E execOk \in BOOLEAN : IpmiDiscoverFans(execOk)
    \/ \E fan_id \in FanIds, speed \in Percents, execOk \in BOOLEAN :
           IpmiSetFanSpeed(fan_id, speed, execOk)
    \/ \E execOk \in BOOLEAN : IpmiEmergencyStop(execOk)
    \/ IpmiInvalidateCache
    \/ \E execOk \in BOOLEAN : IpmiDumpHardwareInfo(execOk)
    \/ IpmiGetSystemInfo

SpecIpmi == InitIpmiSpec /\ [][NextIpmi]_vars

\* ---------------------------------------------------------------------
\* Lifecycle specification: the profile with three initialization commands,
\* each ipmitool run of the initialization failing or not
\* ---------------------------------------------------------------------
InitLife ==
    /\ InitConnCore
    /\ InitCmd
    /\ InitTask
    /\ InitRace
    /\ profile_file = Len(ProfileFiles)
    /\ base_file = NoSuchFile
    /\ ipmi = NoIpmi
    /\ ipmiHist = NoIpmiHist

NextLife ==
    \/ \E dry \in BOOLEAN : IpmiNew(dry, TRUE)
    \/ \E failing \in SUBSET (1..MaxLifecycleCmds), sdrOk \in BOOLEAN :
           IpmiDiscoverSensorsOf(failing, sdrOk)
    \/ \E execOk \in BOOLEAN : IpmiDiscoverFans(execOk)
    \/ \E speed \in Percents, execOk \in BOOLEAN : IpmiSetFanSpeed("all_fans", speed, execOk)
    \/ \E execOk \in BOOLEAN : IpmiEmergencyStop(execOk)
    \/ IpmiInvalidateCache

SpecLife == InitLife /\ [][NextLife]_vars

\* ---------------------------------------------------------------------
\* SDR-capture specification: the discovery cycles of the client on the
\* IPMI backend, numbered; the history keeps the cycle in which the cached
\* CSV was captured
\* ---------------------------------------------------------------------
\* one discovery cycle made of the calls `r` (the outcome of the last call)
SdrCycle(name, r, spawned) ==
    /\ ipmi.built
    /\ ipmiHist.cycle < MaxCycles
    /\ ipmi' = r.mon
    /\ ipmiHist' = [ipmiHist EXCEPT
           !.op = name, !.res = r.res, !.spawned = spawned,
           !.fan_id = "none", !.speed = 0,
           !.cycle = @ + 1,
           !.capCycle = IF \E i \in 1..Len(spawned) : spawned[i] = Tool("sdr")
                        THEN ipmiHist.cycle + 1 ELSE @]
    /\ ipmiVarsUnchangedElse

\* send_data: discover_sensors()?, discover_fans()?
SdrTelemetry(execOk) ==
    LET sens == ipmi_discover_sensors(ipmi, execOk)
        fans == ipmi_discover_fans(sens.mon, execOk)
    IN IF sens.res = "err" THEN SdrCycle("send_data", sens, sens.spawned)
       ELSE SdrCycle("send_data", fans, sens.spawned \o fans.spawned)

\* check_emergency_temp: discover_sensors()?
SdrFailsafePoll(execOk) ==
    LET sens == ipmi_discover_sensors(ipmi, execOk)
    IN SdrCycle("check_emergency_temp", sens, sens.spawned)

\* connect_and_communicate after the handshake: invalidate_cache()
SdrConnect == IpmiInvalidateCache

NextSdr ==
    \/ \E dry \in BOOLEAN : IpmiNew(dry, TRUE)
    \/ \E execOk \in BOOLEAN : SdrTelemetry(execOk)
    \/ \E execOk \in BOOLEAN : SdrFailsafePoll(execOk)
    \/ SdrConnect

SpecSdr == InitLife /\ [][NextSdr]_vars

\* ---------------------------------------------------------------------
\* Broadcast specification: set_all_fans_to_speed of the client on the IPMI
\* backend
\* ---------------------------------------------------------------------
\* rows of `ipmitool -c sdr`: name, reading, unit (the status column is not read)
SdrCsv == << [name |-> "CPU Temp", value |-> "42", unit |-> "degrees C"],
             [name |-> "FAN1", value |-> "1800", unit |-> "RPM"],
             [name |-> "FAN2", value |-> "0", unit |-> "RPM"],
             [name |-> "FAN3", value |-> "na", unit |-> "RPM"] >>

\* `cols[2].contains(token)` on the units above
Contains(unit, token) == unit = token

\* `cols[1].trim().parse::<u32>().ok()?`
ParsesU32(text) == text \in {"0", "42", "1800"}

\* parse_fans: the ids of the Fan structs, in the order of the rows
parse_fans(csv, parsing) ==
    LET rows == SelectSeq(csv, LAMBDA r : Contains(r.unit, parsing.fan_match_token)
                                          /\ ParsesU32(r.value))
    IN [i \in 1..Len(rows) |-> rows[i].name]

\* set_fan_speed(id, speed) for the ids in order: the ipmitool runs, and the
\* ids for which the profile has no matching zone
RECURSIVE IpmiSetAll(_, _, _, _)
IpmiSetAll(mon, ids, speed, execOk) ==
    IF ids = <<>> THEN [spawned |-> <<>>, rejected |-> <<>>]
    ELSE LET r == ipmi_set_fan_speed(mon, Head(ids), speed, execOk)
             rest == IpmiSetAll(mon, Tail(ids), speed, execOk)
             zones == SelectSeq(ipmi_protocol(mon)[1].fan_zones,
                                LAMBDA z : ZoneMatches(z, Head(ids)))
         IN [spawned |-> r.spawned \o rest.spawned,
             rejected |-> (IF Len(zones) = 0 THEN <<Head(ids)>> ELSE <<>>)
                          \o rest.rejected]

\* WebSocketClient::set_all_fans_to_speed(speed) with the IPMI monitor
IpmiBroadcast(speed, execOk) ==
    /\ ipmi.built
    /\ LET d == ipmi_discover_fans(ipmi, execOk)
           ids == IF d.res = "ok" THEN parse_fans(SdrCsv, ipmi_protocol(ipmi)[1].parsing)
                  ELSE <<>>
           all == IpmiSetAll(d.mon, ids, speed, execOk)
       IN /\ ipmi' = d.mon
          /\ ipmiHist' = [ipmiHist EXCEPT
                 !.op = "set_all_fans_to_speed", !.res = d.res,
                 !.spawned = d.spawned \o all.spawned,
                 !.fan_id = "none", !.speed = speed,
                 !.fans = ids, !.rejected = all.rejected]
    /\ ipmiVarsUnchangedElse

NextBcast ==
    \/ \E dry \in BOOLEAN, enable \in BOOLEAN : IpmiNew(dry, enable)
    \/ \E speed \in Percents, execOk \in BOOLEAN : IpmiBroadcast(speed, execOk)
    \/ IpmiInvalidateCache

SpecBcast == InitIpmiSpec /\ [][NextBcast]_vars

\* ---- the speed-translation specification (SpecSpeed): a monitor built from
\* an accepted profile, every percent the callers can pass
AcceptedProfiles == {1, 6}

InitSpeed ==
    /\ InitConnCore
    /\ InitCmd
    /\ InitTask
    /\ InitRace
    /\ profile_file \in AcceptedProfiles
    /\ base_file = 1
    /\ ipmi = [NoIpmi EXCEPT !.built = TRUE,
                             !.profile = load_profile(profile_file, base_file).profile]
    /\ ipmiHist = [NoIpmiHist EXCEPT !.op = "new", !.res = "ok"]

NextSpeed ==
    \E fan_id \in FanIds, speed \in 0..100, execOk \in BOOLEAN :
        IpmiSetFanSpeed(fan_id, speed, execOk)

SpecSpeed == InitSpeed /\ [][NextSpeed]_vars

\* ------------------------------------------------------------------ claims
IsKnown(id) == id \in DOMAIN discovered_fans

\* C4 (as stated): for every known fan, any run of N >= 1 calls
\* set_fan_speed(id, p) with one p performs the PWM write exactly once.
C4_WriteExactlyOnce ==
    \A id \in DOMAIN fanHist :
        fanHist[id].calls >= 1 => fanHist[id].writes = 1

C6_DiscoveryPreservesWriteState ==
    [][DiscoverFans =>
        \A id \in DOMAIN discovered_fans :
            /\ id \in DOMAIN discovered_fans'
            /\ discovered_fans'[id].last_pwm_value = discovered_fans[id].last_pwm_value
            /\ discovered_fans'[id].last_write_time = discovered_fans[id].last_write_time]_vars

\* a fan written at an earlier time was met again by a discovery cycle that
\* refreshed its path, and still carries the byte and the time of that write
C6_Witness ==
    /\ IsKnown("nct")
    /\ fanHist["nct"].redisc
    /\ discovered_fans["nct"].last_pwm_value = PwmOfPercent(50)
    /\ discovered_fans["nct"].last_write_time < now
    /\ discovered_fans["nct"].pwm_path = "hwmon1"
    /\ pwmFile["hwmon0"] = PwmOfPercent(50)

\* C10 (as stated): with a populated sensor cache, discover_sensors performs a
\* full traversal when a hwmon subdirectory was added or removed since the
\* cached discovery, and takes the cache-only fast path when the tree is
\* unchanged.
C10_FullTraversalIffTreeChanged ==
    (sensHist.path # "none" /\ sensHist.populated)
    => /\ sensHist.treeChanged => sensHist.path = "full"
       /\ ~sensHist.treeChanged => sensHist.path = "cache"

\* C10 (amended): with a populated sensor cache, discover_sensors performs a
\* full traversal when the number of hwmon subdirectories differs from the
\* number at the cached discovery, and takes the cache-only fast path (no
\* traversal, last_discovery_from_cache = true) when the number is the same,
\* in particular when the tree is unchanged.
C10_FullTraversalIffCountChanged ==
    (sensHist.path # "none" /\ sensHist.populated)
    => /\ sensHist.countChanged
          => (sensHist.path = "full" /\ ~last_discovery_from_cache)
       /\ ~sensHist.countChanged
          => (sensHist.path = "cache" /\ last_discovery_from_cache)
       /\ ~sensHist.treeChanged => sensHist.path = "cache"

\* a directory was removed after a cached discovery of two chips, and the next
\* call traversed the tree again
C10_Witness ==
    /\ sensHist.populated /\ sensHist.countChanged /\ sensHist.path = "full"
    /\ CountHwmonDirs(tree) = 1
    /\ DOMAIN discovered_sensors = {"k10temp"}

\* fan ids a discover_fans of the present tree returns
TreeFanIds == {FanIdOf(tree[d]) : d \in {x \in Dirs : tree[x] \in FanChips}}

C2_EmergencyStopIffHot ==
    connHist.poll.t >= 0 =>
        (connHist.poll.invoked <=> (connHist.poll.active /\ connHist.poll.hot))

\* a poll read a sensor exactly at the emergency temperature and invoked
\* emergency_stop()
C2_Witness ==
    /\ pc = "backoff"
    /\ connHist.poll.t = now
    /\ connHist.poll.active
    /\ connHist.poll.invoked
    /\ MaxTemp(lastSensors) = emergency_temp * 10

\* C3: while failsafe is active, the connection is not restored and stop was
\* not requested, the last emergency check (or the entry into failsafe) is at
\* most update_interval seconds old.
C3_CheckEveryUpdateInterval ==
    (failsafe_active /\ running /\ pc \in {"connecting", "backoff"}) =>
        now - Max(connHist.lastCheck, connHist.since) <= update_interval * SecMs

\* C7: at every point of the update the disk holds a usable agent binary, as
\* the current binary or as .old, and the current binary is never a file that
\* fails the size or the --version check.
C7_UsableBinaryOnDisk ==
    /\ Usable(curBin) \/ Usable(oldBin)
    /\ ~TooSmall(curBin)
    /\ curBin # NoFile => VersionRuns(curBin)

C9_CrashBeforeRegisteredRollsBack ==
    (updHist.lastBoot # "none" /\ updHist.bootUnreg) => updHist.lastBoot = "rollback"

\* waits of spec 4.5 in ms, by the number of returns of connect_and_communicate
\* in a row that ended a failed attempt or, for the first, a lost connection
BackoffTable(k) ==
    IF k = 1 THEN 5000 ELSE IF k = 2 THEN 7000 ELSE IF k = 3 THEN 10000 ELSE 15000

\* C11: the k-th backoff wait in a row is B, 1.4B, 2B, 3B, 3B, ...; the retry
\* counter never exceeds 3 and no wait exceeds 3B (a stop request ends the run
\* without a wait).
C11_BackoffSequence ==
    /\ retry_count <= 3
    /\ wait_duration <= 3 * reconnect_interval * SecMs
    /\ pc = "backoff" =>
          /\ connHist.streak >= 1
          /\ wait_duration = BackoffTable(connHist.streak)
          /\ retry_count = Min(connHist.streak, 3)

\* the fifth wait in a row: 3B again
C11_Witness ==
    /\ pc = "backoff"
    /\ connHist.streak = 5
    /\ wait_duration = 15000
    /\ retry_count = 3

\* C12: every inbound command that carries a commandId - every command kind,
\* an unknown type, and a command missing its type or its payload - produces
\* exactly one commandResponse with the same commandId, a success boolean and
\* data or error; a command without commandId produces no response.  (The
\* frame is taken to have been written to the socket: a failed send is left
\* out.)
C12_OneResponsePerCommandId ==
    (cmdHist.msg # NoMsg /\ cmdHist.err # "send failed") =>
        IF cmdHist.msg.commandId # NoField
        THEN /\ Len(cmdHist.out) = 1
             /\ cmdHist.out[1].type = "commandResponse"
             /\ cmdHist.out[1].commandId = cmdHist.msg.commandId
             /\ cmdHist.out[1].success \in BOOLEAN
             /\ cmdHist.out[1].data \/ cmdHist.out[1].error
        ELSE cmdHist.out = <<>>

\* the value a setter stores into, read from the configuration
StoredBy(name, cfg) ==
    IF name = "set_update_interval" THEN [num |-> cfg.update_interval, text |-> NoText]
    ELSE IF name = "set_fan_step" THEN [num |-> cfg.fan_step_percent, text |-> NoText]
    ELSE IF name = "set_hysteresis" THEN [num |-> cfg.hysteresis_temp, text |-> NoText]
    ELSE IF name = "set_emergency_temp" THEN [num |-> cfg.emergency_temp, text |-> NoText]
    ELSE IF name = "set_failsafe_speed" THEN [num |-> cfg.failsafe_speed, text |-> NoText]
    ELSE [num |-> NoNum, text |-> cfg.log_level]

\* membership of the value handed to a setter in the closed set of its field
IsSstMember(name, n, t) ==
    IF name = "set_update_interval" THEN n \in VALID_UPDATE_INTERVALS
    ELSE IF name = "set_fan_step" THEN n \in VALID_FAN_STEPS
    ELSE IF name = "set_hysteresis" THEN n \in VALID_HYSTERESIS
    ELSE IF name = "set_emergency_temp"
         THEN \E m \in VALID_EMERGENCY_TEMPS : n = 10 * m
    ELSE IF name = "set_failsafe_speed" THEN n \in VALID_FAILSAFE_SPEEDS
    ELSE t \in VALID_LOG_LEVELS

\* C13: a tunable setter called with a member of its closed set stores that
\* value; called with any other value it returns an error that names the field
\* and lists the set, and the stored configuration is unchanged.
C13_SettersAcceptExactlySst ==
    LET s == cmdHist.setter
    IN  s.name \in SetterNames =>
            IF IsSstMember(s.name, s.arg, s.text)
            THEN /\ s.res # "invalid"
                 /\ StoredBy(s.name, config) = [num |-> s.arg, text |-> s.text]
            ELSE /\ s.res = "invalid"
                 /\ s.errField # "none"
                 /\ s.errListsSet
                 /\ config = cmdHist.before

\* the resolved profile of the last load has an ipmi section whose
\* reset_to_factory list holds no critical command
ResolvedReset == IpmiOf(ipmiHist.resolved[1])[1].lifecycle.reset_to_factory
NoCriticalCase ==
    /\ ipmi.built
    /\ IsSome(ipmiHist.resolved)
    /\ IsSome(IpmiOf(ipmiHist.resolved[1]))
    /\ \A i \in 1..Len(ResolvedReset) : ~ResolvedReset[i].critical

ResultOps == {"discover_sensors", "discover_fans", "set_fan_speed", "emergency_stop",
              "dump_hardware_info", "get_system_info"}

\* C14 as stated: a profile whose resolved reset_to_factory list has no
\* critical command is rejected, and every hardware operation of the IPMI
\* backend then fails without spawning ipmitool.
C14_RejectedEveryOpFails ==
    NoCriticalCase =>
        /\ ~IsSome(ipmi.profile)
        /\ ipmiHist.op \in ResultOps =>
               ipmiHist.res = "err" /\ Len(ipmiHist.spawned) = 0

\* C14 amended: such a profile is rejected and the monitor keeps no profile; no
\* `ipmitool raw` command is ever run; discover_sensors, discover_fans and
\* set_fan_speed fail without spawning ipmitool; emergency_stop and
\* get_system_info return Ok without spawning; dump_hardware_info returns Ok
\* and runs only the profile-independent queries (fru, mc info, sdr).
C14_RejectedNoProfileCommand ==
    NoCriticalCase =>
        /\ ~IsSome(ipmi.profile)
        /\ ipmiHist.loadErr = "Safety violation"
        /\ \A i \in 1..Len(ipmiHist.spawned) : ipmiHist.spawned[i].tool # "raw"
        /\ ipmiHist.op \in {"discover_sensors", "discover_fans", "set_fan_speed"} =>
               ipmiHist.res = "err" /\ Len(ipmiHist.spawned) = 0
        /\ ipmiHist.op \in {"emergency_stop", "get_system_info"} =>
               ipmiHist.res = "ok" /\ Len(ipmiHist.spawned) = 0
        /\ ipmiHist.op = "dump_hardware_info" =>
               /\ ipmiHist.res = "ok"
               /\ Len(ipmiHist.spawned) >= 2
               /\ \A i \in 1..Len(ipmiHist.spawned) :
                      ipmiHist.spawned[i].tool \in {"fru", "mc", "sdr"}

\* a child whose own reset list is empty over a base with a critical reset
\* command was rejected, and set_fan_speed was then tried
C14_Witness ==
    /\ NoCriticalCase
    /\ profile_file = 5
    /\ base_file = 1
    /\ ipmiHist.op = "set_fan_speed"
    /\ ipmiHist.res = "err"

\* the files of the last successful resolve_extends
ChildJson == ProfileFiles[profile_file]
BaseJson == BaseFiles[base_file]
ChildHasIpmi == "protocols" \in DOMAIN ChildJson /\ "ipmi" \in DOMAIN ChildJson.protocols
BaseHasIpmi == "protocols" \in DOMAIN BaseJson /\ "ipmi" \in DOMAIN BaseJson.protocols
BaseInitList ==
    IF BaseHasIpmi /\ "lifecycle" \in DOMAIN BaseJson.protocols.ipmi
       /\ "initialization" \in DOMAIN BaseJson.protocols.ipmi.lifecycle
    THEN BaseJson.protocols.ipmi.lifecycle.initialization ELSE <<>>
ResolvedCase ==
    /\ ipmi.built
    /\ profile_file # NoSuchFile
    /\ "extends" \in DOMAIN ChildJson
    /\ IsSome(ipmiHist.resolved)

\* a metadata field of the resolved profile against child and base
MergedOpt(key) ==
    IF key \in DOMAIN ChildJson.metadata THEN Some(ChildJson.metadata[key])
    ELSE IF key \in DOMAIN BaseJson.metadata THEN Some(BaseJson.metadata[key])
    ELSE None

\* C15: resolving a child that extends a base gives fan_zones and
\* reset_to_factory equal to the child's lists, initialization equal to the
\* base's list followed by the child's, every scalar of the child in place of
\* the base's, and nested objects merged key by key with the child taking
\* precedence and base-only keys kept (a child without an ipmi section keeps
\* the base's).
C15_ResolveExtends ==
    ResolvedCase =>
        LET r == ipmiHist.resolved[1]
        IN  /\ ~IsSome(r.extends)
            /\ r.metadata.schema_version = ChildJson.metadata.schema_version
            /\ r.metadata.vendor = ChildJson.metadata.vendor
            /\ r.metadata.description = MergedOpt("description")
            /\ r.metadata.author = MergedOpt("author")
            /\ ChildHasIpmi =>
                   LET i == IpmiOf(r)[1]
                       c == ChildJson.protocols.ipmi
                   IN /\ i.fan_zones = c.fan_zones
                      /\ i.lifecycle.reset_to_factory = c.lifecycle.reset_to_factory
                      /\ i.lifecycle.initialization =
                             BaseInitList \o c.lifecycle.initialization
                      /\ i.parsing = c.parsing
            /\ (~ChildHasIpmi /\ BaseHasIpmi) =>
                   LET i == IpmiOf(r)[1]
                       b == BaseJson.protocols.ipmi
                   IN /\ i.fan_zones = b.fan_zones
                      /\ i.lifecycle = b.lifecycle
                      /\ i.parsing = b.parsing
            /\ (~ChildHasIpmi /\ ~BaseHasIpmi) => ~IsSome(IpmiOf(r))

\* a child with its own lists resolved over the complete base
C15_Witness ==
    /\ ResolvedCase
    /\ profile_file = 6
    /\ base_file = 1
    /\ Len(IpmiOf(ipmiHist.resolved[1])[1].lifecycle.initialization) = 3
    /\ ipmiHist.resolved[1].metadata.description = Some("Dell base")

\* the zones a successful set_fan_speed ran a command for
RanZones ==
    SelectSeq(SelectSeq(ipmi_protocol(ipmi)[1].fan_zones,
                        LAMBDA z : ZoneMatches(z, ipmiHist.fan_id)), ZoneHasBytes)
SpeedCase ==
    /\ ipmiHist.op = "set_fan_speed"
    /\ ipmiHist.res = "ok"
    /\ Len(ipmiHist.spawned) > 0

\* the speed token of the i-th command run
SpeedToken(i) == ipmiHist.spawned[i].args[Len(ipmiHist.spawned[i].args)]

\* C17: for a byte_scale zone the value sent is 0xNN with NN inside
\* [output_min, output_max], output_min at 0 percent, output_max at 100 percent
\* and in between the linear value percent * (max - min) / 100 cut to a whole
\* number (never above it, less than one step below); with 0..255 the input 50
\* gives 0x7f; the placeholder of the template is replaced by that value and the
\* other bytes are kept.
C17_ByteScale ==
    SpeedCase =>
        /\ Len(ipmiHist.spawned) = Len(RanZones)
        /\ \A i \in 1..Len(RanZones) :
              LET z == RanZones[i]
                  p == ipmiHist.speed
                  lo == IF "output_min" \in DOMAIN z.speed_translation.params
                        THEN z.speed_translation.params.output_min ELSE 0
                  hi == IF "output_max" \in DOMAIN z.speed_translation.params
                        THEN z.speed_translation.params.output_max ELSE 255
                  tpl == z.commands.set_speed.bytes[1]
                  out == ipmiHist.spawned[i].args
              IN  /\ Len(out) = Len(tpl)
                  /\ \A j \in 1..Len(tpl) :
                         tpl[j] \notin Placeholders => out[j] = tpl[j]
                  /\ z.speed_translation.type = "byte_scale" =>
                        \E v \in lo..hi :
                           /\ SpeedToken(i) = Hex2(v)
                           /\ p = 0 => v = lo
                           /\ p = 100 => v = hi
                           /\ 100 * (v - lo) <= p * (hi - lo)
                           /\ p * (hi - lo) <= 100 * (v - lo) + 100
                  /\ (z = ZoneAll /\ p = 50) =>
                        out = <<"0x30", "0x30", "0x02", "0xff", "0x7f">>

\* 50 percent went to the 0..255 zone
C17_Witness ==
    /\ SpeedCase
    /\ ipmiHist.speed = 50
    /\ ipmiHist.fan_id = "all_fans"
    /\ profile_file = 1
    /\ ipmiHist.spawned[1].args[5] = "0x7f"

\* C16 as stated: set_fan_speed(id, p) clamps p to [0, 100] and writes the PWM
\* byte round(p / 100 * 255); 50 percent writes 0x80 (128) and 60 percent
\* writes 0x99 (153).
C16_WritesRoundedByte ==
    \A id \in DOMAIN fanHist :
        fanHist[id].cur.io = "written" =>
            /\ fanHist[id].cur.byte = PwmOfPercentRound(fanHist[id].pct)
            /\ fanHist[id].pct = 50 => fanHist[id].cur.byte = 128
            /\ fanHist[id].pct = 60 => fanHist[id].cur.byte = 153

\* C18 as stated: when emergency_stop returns and no PWM write reported an I/O
\* error, the last written PWM byte of every known fan is 255, whatever writes
\* preceded the call and however recently.
C18_EmergencyStopAllFull ==
    [][(\E io \in IoOutcomes : EmergencyStop(io)) =>
          ((\A id \in DOMAIN discovered_fans' :
                fanHist'[id].cur.io \notin {"enable_err", "write_err"})
           => \A id \in DOMAIN discovered_fans' : fanHist'[id].okByte = 255)]_vars

\* C19: failsafe-active is true throughout backoff and false while the client
\* is online; it rises only on a step that ends a connection attempt or a
\* connection, and falls only on the step of a successful handshake.
C19_FailsafeFollowsConnection ==
    /\ []((pc = "backoff" => failsafe_active) /\ (pc = "online" => ~failsafe_active))
    /\ [][((~failsafe_active /\ failsafe_active')
              => (pc \in {"connecting", "online"} /\ pc' \in {"backoff", "done"}))
           /\ ((failsafe_active /\ ~failsafe_active')
              => (pc = "connecting" /\ pc' = "online"))]_vars

\* online again after a lost connection and a failed attempt: the flag was set
\* and has been cleared
C19_Witness == pc = "online" /\ ~failsafe_active /\ connHist.phase = 4

\* stop has been requested while run is connecting, online or waiting
StopRequested == ~running /\ pc \in {"connecting", "online", "backoff"}

\* once stop is requested run returns, and with it both tasks of the
\* connection are gone for good
RunReturns ==
    /\ StopRequested ~> (pc = "done")
    /\ [](pc = "done" => receiver = "none" /\ data_sender = "none")
    /\ [][pc = "done" => taskHist' = taskHist]_vars

\* neither task waits forever for the sink or for a frame
NoTaskBlocks ==
    /\ (receiver = "lock") ~> (receiver # "lock")
    /\ (receiver = "read") ~> (receiver # "read")
    /\ (data_sender = "lock") ~> (data_sender # "lock")

C21_FailedSenderEndsOnline ==
    (pc = "online" /\ taskHist.failed = "collect_err")
        => now - taskHist.failedAt <= (CONNECTION_HEALTH_TIMEOUT_SECS + 2) * SecMs

\* a running client's receive loop takes a turn at its top
TopTurn == pc = "online" /\ receiver = "top" /\ running /\ receiver' # "top"

\* the turn ends the connection through the health check
HealthBreak ==
    /\ pc' = "backoff"
    /\ failsafe_active'
    /\ receiver' = "none"
    /\ taskHist'.end = "health"

C24_OneSender ==
    /\ ~(data_sender = "send" /\ receiver = "handle")
    /\ taskHist.most <= 1

\* the data_sender writes its frame while the receive loop, with a Text
\* frame to answer, waits for the guard
C24_Witness ==
    /\ data_sender = "send"
    /\ receiver = "lock"
    /\ write_queue = <<"data_sender", "receiver">>
    /\ taskHist.most = 1

\* C25: two concurrent set_fan_speed calls on one fan never write the PWM
\* file at the same time (the writes of one fan are ordered by the rate-limit
\* lock, held from the check to the end of the write).
C25_WritesNeverOverlap == ~(\A c \in Callers : calls[c].pc = "writing")

\* the half of C25 the code keeps: no two calls pass the rate-limit test
\* less than 100 ms apart
C25_OnePassPerWindow == ~raceHist.close

\* two calls have passed the test, 100 ms or more apart
C25_TwoPasses ==
    /\ \A c \in Callers : calls[c].pc \in {"enable", "write", "writing"}
    /\ ~raceHist.close

C27_EmergencyStopBestEffort ==
    [][\A ioOf \in PanicOutcomes :
          EmergencyStopEach(ioOf) =>
             /\ EmergencyStopOn(Hw, fanHist, now, ioOf).res = "ok"
             /\ \A id \in DOMAIN discovered_fans :
                   /\ fanHist'[id].pct = 100
                   /\ fanHist'[id].cur.t = now
                   /\ fanHist'[id].cur.byte = 255]_vars

\* the write of the first fan failed and the second fan was set to 255
C27_Witness ==
    /\ DOMAIN discovered_fans = FanChips
    /\ fanHist["nct"].pct = 100 /\ fanHist["nct"].cur.io = "write_err"
    /\ fanHist["it87"].pct = 100 /\ fanHist["it87"].cur.io = "written"
    /\ fanHist["it87"].cur.t = fanHist["nct"].cur.t
    /\ pwmFile["hwmon1"] = 255 /\ pwmFile["hwmon0"] # 255

\* C28: after a critical initialization command failed the IPMI backend is
\* uninitialized and a set_fan_speed call dispatches no command to the BMC.
C28_AbortedInitNoFanCommand ==
    (ipmiHist.aborted /\ ~ipmi.initialized /\ ipmiHist.op = "set_fan_speed")
    => Len(ipmiHist.spawned) = 0

\* the part of C28 the code keeps: an initialization that a critical command
\* aborted leaves the backend uninitialized, and the call that ran it failed
\* with the critical command as its last ipmitool run
C28_AbortKeepsUninitialized ==
    /\ ipmiHist.aborted => ~ipmi.initialized
    /\ (ipmiHist.aborted /\ ipmiHist.op = "discover_sensors")
       => /\ ipmiHist.res = "err"
          /\ Len(ipmiHist.spawned) > 0
          /\ ipmiHist.spawned[Len(ipmiHist.spawned)].args
                \in {CmdManual.bytes[1], CmdPcie.bytes[1]}

\* C29: the initialization command list is run at most once in the life of
\* the process, whatever the sequence of discover_sensors calls.
C29_InitAtMostOnce == ipmiHist.inits <= 1

\* the part of C29 the code keeps: run_reset_to_factory (emergency_stop)
\* before any initialization runs no command
C29_ResetBeforeInitIsNoop ==
    (ipmiHist.op = "emergency_stop" /\ ipmiHist.inits = 0)
    => (ipmiHist.res = "ok" /\ Len(ipmiHist.spawned) = 0)

\* C30: once an initialization command has been executed by the BMC, an
\* emergency_stop runs the reset_to_factory commands, also when the
\* initialization was not completed.
C30_ResetAfterAnyInit ==
    (ipmiHist.touched /\ ipmiHist.op = "emergency_stop")
    => Len(ipmiHist.spawned) > 0

\* C31: every telemetry cycle and every failsafe poll on the IPMI backend
\* that succeeds has read its sensors from an `sdr` CSV captured in that cycle.
C31_FreshCapturePerCycle ==
    (ipmiHist.op \in {"send_data", "check_emergency_temp"} /\ ipmiHist.res = "ok")
    => ipmiHist.capCycle = ipmiHist.cycle

\* the part of C31 the code keeps: one cycle runs `ipmitool sdr` at most
\* once, and after invalidate_cache the monitor holds no CSV
C31_OneCapturePerCycle ==
    /\ ipmiHist.op \in {"send_data", "check_emergency_temp"}
       => Cardinality({i \in 1..Len(ipmiHist.spawned) :
                          ipmiHist.spawned[i] = Tool("sdr")}) <= 1
    /\ ipmiHist.op = "invalidate_cache" => ~ipmi.sdr_cached

\* C32: every fan id that discover_fans returned to the failsafe broadcast is
\* accepted by set_fan_speed: no id is refused for want of a matching zone.
C32_DiscoveredFansAccepted ==
    ipmiHist.op = "set_all_fans_to_speed" => Len(ipmiHist.rejected) = 0

\* C33: emergency_stop on the sysfs backend always terminates: its nested read
\* of the fan map never waits behind a writer that itself waits for the outer
\* read guard of emergency_stop.
C33_NestedReadNeverBehindWriter ==
    ~(/\ raceHist.at["emergency_stop"] = "nested_wait"
      /\ raceHist.readers["emergency_stop"] = 1
      /\ raceHist.waiters # <<>>
      /\ Head(raceHist.waiters) = <<"discover_fans", "write">>)

\* the nested read of emergency_stop is queued behind the write of discover_fans
\* while emergency_stop holds its outer read guard
MapStuck ==
    /\ raceHist.at["emergency_stop"] = "nested_wait"
    /\ raceHist.readers["emergency_stop"] = 1
    /\ raceHist.waiters # <<>>
    /\ Head(raceHist.waiters) = <<"discover_fans", "write">>

\* C33 (supporting): once emergency_stop waits behind such a writer it waits
\* for ever: neither request is granted in any later state.
C33_StuckStaysStuck == [][MapStuck => MapStuck']_vars

\* C34: for an unchanged hwmon tree the cache-only path of discover_sensors
\* returns what a full discovery of the same tree and readings returns: the
\* same sensors, each with the same temperature.
C34_CachePathEqualsFull ==
    [][(DiscoverSensors /\ sensHist'.path = "cache" /\ ~sensHist'.treeChanged)
       => ({lastSensors'[i] : i \in DOMAIN lastSensors'}
           = {DiscoverHwmonSensors(tree, tempRaw)[i] :
                 i \in DOMAIN DiscoverHwmonSensors(tree, tempRaw)})]_vars

\* C34 (supporting): on that path no sensor is lost when the chips have
\* different names.
C34_DistinctChipsKeepSensors ==
    [][(/\ DiscoverSensors /\ sensHist'.path = "cache" /\ ~sensHist'.treeChanged
        /\ \A d, e \in Dirs : (d # e /\ tree[d] \in TempChips) => tree[d] # tree[e])
       => ({lastSensors'[i].source : i \in DOMAIN lastSensors'}
           = {d \in Dirs : tree[d] \in TempChips})]_vars

\* C34 (supporting): on that path the temperature agrees with the full
\* discovery whenever the reading is a whole number of degrees.
C34_WholeDegreesAgree ==
    [][(DiscoverSensors /\ sensHist'.path = "cache" /\ ~sensHist'.treeChanged)
       => \A i \in DOMAIN lastSensors' :
             tempRaw[lastSensors'[i].source] % 1000 = 0
             => lastSensors'[i].temperature
                = FullPathTemp(tempRaw[lastSensors'[i].source])]_vars

\* the payload integer of the last setFanStep or setFailsafeSpeed command that
\* was answered
StepOrSpeedAnswered ==
    /\ cmdHist.msg # NoMsg
    /\ cmdHist.msg.type \in {"setFanStep", "setFailsafeSpeed"}
    /\ cmdHist.msg.num # NoNum
    /\ cmdHist.out # <<>>

\* C35: a setFanStep or setFailsafeSpeed command whose payload integer is not a
\* member of the closed set of its field is answered with success=false and
\* leaves the configuration unchanged; when success=true the stored value
\* equals the payload value.
C35_PayloadOutsideSstRejected ==
    StepOrSpeedAnswered =>
        LET ty == cmdHist.msg.type
            n == cmdHist.msg.num
            member == IF ty = "setFanStep" THEN n \in VALID_FAN_STEPS
                      ELSE n \in VALID_FAILSAFE_SPEEDS
            stored == IF ty = "setFanStep" THEN config.fan_step_percent
                      ELSE config.failsafe_speed
        IN /\ ~member => (~cmdHist.out[1].success /\ config = cmdHist.before)
           /\ cmdHist.out[1].success => stored = n

\* C35 (supporting): the claim holds for every payload integer below 256.
C35_BelowU8RangeRejected ==
    (StepOrSpeedAnswered /\ cmdHist.msg.num < 256) =>
        LET ty == cmdHist.msg.type
            n == cmdHist.msg.num
            member == IF ty = "setFanStep" THEN n \in VALID_FAN_STEPS
                      ELSE n \in VALID_FAILSAFE_SPEEDS
            stored == IF ty = "setFanStep" THEN config.fan_step_percent
                      ELSE config.failsafe_speed
        IN /\ ~member => (~cmdHist.out[1].success /\ config = cmdHist.before)
           /\ cmdHist.out[1].success => stored = n

\* C36: at most one self-update is in progress at a time: no two self_update
\* tasks are between download and restart on the same .new and .old files.
C36_OneUpdateInProgress ==
    Cardinality({c \in UpdTasks : updHist.tasks[c].pc \in UpdWorking}) <= 1

\* C36 (consequence, refuted with it): the binary a self_update task installs
\* as <current> is one that passed the size and execution checks.
C36_InstalledPassedChecks ==
    \A c \in UpdTasks :
        updHist.tasks[c].pc \in {"installed", "marked"} =>
            (~TooSmall(curBin) /\ VersionRuns(curBin))

HoldsWritten(d) ==
    /\ tree[d] \in FanChips
    /\ FanIdOf(tree[d]) \in DOMAIN fanHist
    /\ fanHist[FanIdOf(tree[d])].cur.io = "written"
    /\ pwmFile[d] = fanHist[FanIdOf(tree[d])].cur.byte

\* C38: after a successful set_fan_speed(id, p) the next discover_fans reports
\* the speed of that fan as p: percent to PWM byte and back is the identity.
C38_DiscoverReportsCommanded ==
    [][DiscoverFans =>
         \A d \in Dirs :
            HoldsWritten(d) =>
               \E i \in DOMAIN lastFans' :
                  /\ lastFans'[i].id = FanIdOf(tree[d])
                  /\ lastFans'[i].speed = fanHist[FanIdOf(tree[d])].pct]_vars

\* C38 (supporting): the reported speed is the commanded percent when that
\* percent is a multiple of 20, the percents whose byte is exact.
C38_ExactPercentsReported ==
    [][DiscoverFans =>
         \A d \in Dirs :
            (HoldsWritten(d) /\ fanHist[FanIdOf(tree[d])].pct % 20 = 0) =>
               \E i \in DOMAIN lastFans' :
                  /\ lastFans'[i].id = FanIdOf(tree[d])
                  /\ lastFans'[i].speed = fanHist[FanIdOf(tree[d])].pct]_vars

\* C38 (supporting): over 0..100 the conversion to the byte and back gives the
\* percent or one less, and the percent itself exactly at the multiples of 20.
C38_RoundTripWithinOne ==
    \A p \in 0..100 :
        /\ PercentOfPwm(PwmOfPercent(p)) \in {p - 1, p}
        /\ PercentOfPwm(PwmOfPercent(p)) = p <=> p % 20 = 0

\* C39: the PID file is removed only by the process whose PID it contains: the
\* PID file of a running instance is never removed by another process.
C39_PidFileRemovedByOwnerOnly == ~daemon.wiped

\* C39 (supporting): an instance that shuts down removes the PID file only
\* when the file holds its own PID.
C39_ShutdownRemovesOwnFileOnly ==
    [][\A p \in Pids :
          InstRemove(p) => (daemon.pid_file \in {p, NoPid} /\ daemon'.wiped = daemon.wiped)]_vars

\* the last migrate_config call returned Ok on a file with a hardware object
MigratedCase ==
    /\ config_json.runs > 0
    /\ config_json.res = "ok"
    /\ config_json.before.exists
    /\ config_json.before.hardware.kind = "object"

\* C40: migrate_config removes the obsolete hardware keys, adds failsafe_speed
\* = 70 when it is absent, keeps every other key with its value, rewrites the
\* file if and only if some migration ran, and a second run on its own output
\* reports no migration and leaves the file unchanged.
C40_MigrateConfig ==
    MigratedCase =>
        LET b == config_json.before.hardware.fields
            a == config_json.file.hardware.fields
            needed == (DOMAIN b \cap ObsoleteKeys # {}) \/ "failsafe_speed" \notin DOMAIN b
            again == migrate_config(config_json.file, "ok")
        IN /\ DOMAIN a = (DOMAIN b \ ObsoleteKeys) \cup {"failsafe_speed"}
           /\ a["failsafe_speed"] = IF "failsafe_speed" \in DOMAIN b
                                    THEN b["failsafe_speed"] ELSE 70
           /\ \A k \in DOMAIN b \ ObsoleteKeys : a[k] = b[k]
           /\ config_json.file.top = config_json.before.top
           /\ config_json.migrated <=> needed
           /\ config_json.wrote <=> config_json.migrated
           /\ ~config_json.wrote => config_json.file = config_json.before
           /\ config_json.wrote => config_json.file.layout = "pretty"
           /\ ~again.migrated /\ ~again.wrote /\ again.file = config_json.file

\* a file laid out compactly, with an obsolete key and without failsafe_speed,
\* was migrated and rewritten
C40_Witness ==
    /\ MigratedCase
    /\ config_json.migrated /\ config_json.wrote
    /\ "fan_safety_minimum" \in DOMAIN config_json.before.hardware.fields
    /\ "failsafe_speed" \notin DOMAIN config_json.before.hardware.fields
    /\ "fan_step_percent" \in DOMAIN config_json.file.hardware.fields
    /\ config_json.before.layout = "compact"
    /\ config_json.file.layout = "pretty"

\* C40 (supporting): a file without a hardware object, or no file, is left as
\* it is and no migration is reported.
C40_NoHardwareUntouched ==
    (/\ config_json.runs > 0
     /\ config_json.res = "ok"
     /\ (~config_json.before.exists \/ config_json.before.hardware.kind # "object"))
    => (~config_json.migrated /\ config_json.file = config_json.before)

====
